---- MODULE Spec2Model ----
(***************************************************************************)
(* Model of the revset evaluation engine, lib/src/default_revset_engine.rs *)
(*                                                                         *)
(* An IndexEntry is represented by its position (entries are equal exactly *)
(* when their positions are equal); the attributes of an entry that the    *)
(* engine reads (parent_positions) are looked up in the index by position. *)
(* Option<T> is a sequence of length at most one: <<>> is None and <<x>>   *)
(* is Some(x).                                                             *)
(***************************************************************************)
EXTENDS Integers, Sequences, FiniteSets, TLC

\* Greatest index position of the model; positions are 0..MaxPos.
MaxPos == 2

Positions == 0..MaxPos

None == <<>>
Some(x) == <<x>>

VARIABLES
    scen,       \* what the consumer does in the behaviour ("iter": pull
                \* from an iterator, "collect" then "pred": call a closure,
                \* "eval": evaluate an expression)
    revset,     \* the operator tree (Box<dyn InternalRevset>) under evaluation
    iter,       \* state of the iterator obtained from revset.iter()
    out,        \* the items the consumer has pulled from iter so far
    done,       \* the consumer has seen None from iter
    closure,    \* state of the closure obtained from revset.to_predicate_fn()
    before,     \* state of that closure before its latest call, kept
                \* where calls are made in any order
    asked,      \* the positions the closure was called with, in call order
    answers,    \* what it returned, in call order
    index,      \* the commit graph: index[p] is parent_positions of entry p
    store,      \* the commits: store[p] is the committer timestamp of the
                \* commit of entry p
    ids,        \* ids[p] is the commit id of entry p
    heads_order,\* the order in which composite_index.heads returns ids: the
                \* positions in the order their ids come out
    expression, \* the ResolvedExpression given to evaluate
    reachable,  \* the position set collect_dag_range returned
    generation, \* the Range<u64> given to to_u32_generation_range
    converted,  \* what to_u32_generation_range returned
    result,     \* what evaluate returned, where it is kept as a Result
    id_index,   \* the Vec<(K, V)> given to IdIndex::from_vec, then the IdIndex
    change_ids, \* change_ids[p] is the change id of entry p
    constructed, \* the node as it was built, before any cursor was taken
    earlier,    \* what the earlier iterators of the node yielded, each run to its end
    bar,        \* the progress, the buffer and the width given to draw_progress
    buf,        \* the String draw_progress appends to
    this,       \* the Progress: next_print, rate, buffer, guard
    clock,      \* the Instant of the latest call of Progress::new or update
    term        \* the Ui: its width and what was written to it

vars == <<scen, revset, iter, out, done, closure, before, asked, answers,
          index, store, ids, heads_order, expression,
          generation, converted, reachable, result, id_index, change_ids,
                   constructed, earlier,
                   bar, buf, this, clock, term>>

RECURSIVE SortDesc(_)
\* The strictly descending sequence of the elements of a set of positions.
SortDesc(S) ==
    IF S = {} THEN <<>>
    ELSE LET m == CHOOSE x \in S : \A y \in S : y <= x
         IN <<m>> \o SortDesc(S \ {m})

Range(s) == {s[i] : i \in DOMAIN s}

StrictlyDescending(s) == \A i \in 1..(Len(s) - 1) : s[i] > s[i + 1]

(***************************************************************************)
(* The operator nodes.                                                     *)
(***************************************************************************)
EagerRevset(index_entries) == [kind |-> "Eager", index_entries |-> index_entries]
\* A RevWalk is modelled by the sequence of entries it has yet to yield.
RevWalkRevset(walk) == [kind |-> "Walk", walk |-> walk]
FilterRevset(candidates, predicate) ==
    [kind |-> "Filter", candidates |-> candidates, predicate |-> predicate]
UnionRevset(set1, set2) == [kind |-> "Union", set1 |-> set1, set2 |-> set2]
IntersectionRevset(set1, set2) ==
    [kind |-> "Intersection", set1 |-> set1, set2 |-> set2]
DifferenceRevset(set1, set2) ==
    [kind |-> "Difference", set1 |-> set1, set2 |-> set2]
NotInPredicate(s) == [kind |-> "NotIn", s |-> s]
UnionPredicate(set1, set2) ==
    [kind |-> "UnionPredicate", set1 |-> set1, set2 |-> set2]
\* A PurePredicateFn is given by the set of positions its function accepts.
PurePredicateFn(accept) == [kind |-> "Pure", accept |-> accept]

(***************************************************************************)
(* Iterators.  std's Fuse and Peekable adapters are modelled with their    *)
(* own state: Fuse remembers that the inner iterator returned None,        *)
(* Peekable holds the item it has pulled ahead (Option<Option<Item>>).     *)
(***************************************************************************)
Fuse(i) == [kind |-> "Fuse", iter |-> i, exhausted |-> FALSE]
Peekable(i) == [kind |-> "Peekable", iter |-> i, peeked |-> None]

\* The result of a call that mutates its receiver: the value returned and
\* the receiver afterwards.
Ret(item, self) == [item |-> item, self |-> self]

RECURSIVE InternalRevset_iter(_)
RECURSIVE ToPredicateFn_to_predicate_fn(_)
RECURSIVE Iterator_next(_)
RECURSIVE IntersectionRevsetIterator_next(_)
RECURSIVE DifferenceRevsetIterator_next(_)
RECURSIVE FilterIterator_next(_)
RECURSIVE predicate_fn_from_iter_call(_, _)
RECURSIVE Predicate_call(_, _)

\* Peekable::next: hand out the item pulled ahead, else pull from the inner.
Peekable_next(pk) ==
    IF pk.peeked # None
    THEN Ret(pk.peeked[1], [pk EXCEPT !.peeked = None])
    ELSE LET r == Iterator_next(pk.iter)
         IN Ret(r.item, [pk EXCEPT !.iter = r.self])

\* Peekable::peek: pull one item ahead unless one is held, and return it.
Peekable_peek(pk) ==
    IF pk.peeked # None
    THEN Ret(pk.peeked[1], pk)
    ELSE LET r == Iterator_next(pk.iter)
         IN Ret(r.item, [pk EXCEPT !.iter = r.self, !.peeked = Some(r.item)])

\* Peekable::next_if(func), func given as the set of positions it accepts:
\* next() is called, and an item func rejects (or None) is put back.
Peekable_next_if(pk, accepted) ==
    LET r == Peekable_next(pk)
    IN IF r.item # None /\ r.item[1] \in accepted
       THEN r
       ELSE Ret(None, [r.self EXCEPT !.peeked = Some(r.item)])

\* Fuse::next: after the first None the inner iterator is not called again.
Fuse_next(f) ==
    IF f.exhausted THEN Ret(None, f)
    ELSE LET r == Iterator_next(f.iter)
         IN Ret(r.item, [f EXCEPT !.iter = r.self, !.exhausted = (r.item = None)])

\* EagerRevset::iter is index_entries.iter().cloned(): a slice iterator.
SliceIter(s) == [kind |-> "Slice", rest |-> s]
SliceIter_next(i) ==
    IF i.rest = <<>> THEN Ret(None, i)
    ELSE Ret(Some(Head(i.rest)), [i EXCEPT !.rest = Tail(i.rest)])

\* UnionRevsetIterator::next without self.iter1.next() in the Equal arm.
UnionRevsetIterator_next_keeps_iter1(u) ==
    LET k1 == Peekable_peek(u.iter1)
        k2 == Peekable_peek(u.iter2)
        v == [u EXCEPT !.iter1 = k1.self, !.iter2 = k2.self]
        n1 == Peekable_next(v.iter1)
        n2 == Peekable_next(v.iter2)
    IN IF k1.item = None THEN Ret(n2.item, [v EXCEPT !.iter2 = n2.self])
       ELSE IF k2.item = None THEN Ret(n1.item, [v EXCEPT !.iter1 = n1.self])
       ELSE IF k1.item[1] <= k2.item[1]
            THEN Ret(n2.item, [v EXCEPT !.iter2 = n2.self])
       ELSE Ret(n1.item, [v EXCEPT !.iter1 = n1.self])

\* UnionRevsetIterator::next that stops when iter1 is exhausted.
UnionRevsetIterator_next_stops(u) ==
    LET k1 == Peekable_peek(u.iter1)
        k2 == Peekable_peek(u.iter2)
        v == [u EXCEPT !.iter1 = k1.self, !.iter2 = k2.self]
        n1 == Peekable_next(v.iter1)
        n2 == Peekable_next(v.iter2)
    IN IF k1.item = None THEN Ret(None, v)
       ELSE IF k2.item = None THEN Ret(n1.item, [v EXCEPT !.iter1 = n1.self])
       ELSE IF k1.item[1] < k2.item[1]
            THEN Ret(n2.item, [v EXCEPT !.iter2 = n2.self])
       ELSE IF k1.item[1] = k2.item[1]
            THEN Ret(n2.item, [v EXCEPT !.iter1 = n1.self, !.iter2 = n2.self])
       ELSE Ret(n1.item, [v EXCEPT !.iter1 = n1.self])

\* UnionRevsetIterator::next
UnionRevsetIterator_next(u) ==
    LET k1 == Peekable_peek(u.iter1)
        k2 == Peekable_peek(u.iter2)
        v == [u EXCEPT !.iter1 = k1.self, !.iter2 = k2.self]
        n1 == Peekable_next(v.iter1)
        n2 == Peekable_next(v.iter2)
    IN IF k1.item = None THEN Ret(n2.item, [v EXCEPT !.iter2 = n2.self])
       ELSE IF k2.item = None THEN Ret(n1.item, [v EXCEPT !.iter1 = n1.self])
       ELSE IF k1.item[1] < k2.item[1]
            THEN Ret(n2.item, [v EXCEPT !.iter2 = n2.self])
       ELSE IF k1.item[1] = k2.item[1]
            THEN Ret(n2.item, [v EXCEPT !.iter1 = n1.self, !.iter2 = n2.self])
       ELSE Ret(n1.item, [v EXCEPT !.iter1 = n1.self])

\* IntersectionRevsetIterator::next that drains iter2 once iter1 is exhausted.
IntersectionRevsetIterator_next_drains(u) ==
    LET k1 == Peekable_peek(u.iter1)
        k2 == Peekable_peek(u.iter2)
        v == [u EXCEPT !.iter1 = k1.self, !.iter2 = k2.self]
        n1 == Peekable_next(v.iter1)
        n2 == Peekable_next(v.iter2)
    IN IF k2.item = None THEN Ret(None, v)
       ELSE IF k1.item = None
            THEN IntersectionRevsetIterator_next([v EXCEPT !.iter2 = n2.self])
       ELSE IF k1.item[1] < k2.item[1]
            THEN IntersectionRevsetIterator_next([v EXCEPT !.iter2 = n2.self])
       ELSE IF k1.item[1] = k2.item[1]
            THEN Ret(n2.item, [v EXCEPT !.iter1 = n1.self, !.iter2 = n2.self])
       ELSE IntersectionRevsetIterator_next([v EXCEPT !.iter1 = n1.self])

\* IntersectionRevsetIterator::next (one turn of its loop per unfolding)
IntersectionRevsetIterator_next(u) ==
    LET k1 == Peekable_peek(u.iter1)
        k2 == Peekable_peek(u.iter2)
        v == [u EXCEPT !.iter1 = k1.self, !.iter2 = k2.self]
        n1 == Peekable_next(v.iter1)
        n2 == Peekable_next(v.iter2)
    IN IF k1.item = None THEN Ret(None, v)
       ELSE IF k2.item = None THEN Ret(None, v)
       ELSE IF k1.item[1] < k2.item[1]
            THEN IntersectionRevsetIterator_next([v EXCEPT !.iter2 = n2.self])
       ELSE IF k1.item[1] = k2.item[1]
            THEN Ret(n2.item, [v EXCEPT !.iter1 = n1.self, !.iter2 = n2.self])
       ELSE IntersectionRevsetIterator_next([v EXCEPT !.iter1 = n1.self])

\* DifferenceRevsetIterator::next that ends when iter2 is exhausted.
DifferenceRevsetIterator_next_ends(u) ==
    LET k1 == Peekable_peek(u.iter1)
        k2 == Peekable_peek(u.iter2)
        v == [u EXCEPT !.iter1 = k1.self, !.iter2 = k2.self]
        n1 == Peekable_next(v.iter1)
        n2 == Peekable_next(v.iter2)
    IN IF k1.item = None THEN Ret(None, v)
       ELSE IF k2.item = None THEN Ret(None, v)
       ELSE IF k1.item[1] < k2.item[1]
            THEN DifferenceRevsetIterator_next([v EXCEPT !.iter2 = n2.self])
       ELSE IF k1.item[1] = k2.item[1]
            THEN DifferenceRevsetIterator_next(
                     [v EXCEPT !.iter1 = n1.self, !.iter2 = n2.self])
       ELSE Ret(n1.item, [v EXCEPT !.iter1 = n1.self])

\* DifferenceRevsetIterator::next (one turn of its loop per unfolding)
DifferenceRevsetIterator_next(u) ==
    LET k1 == Peekable_peek(u.iter1)
        k2 == Peekable_peek(u.iter2)
        v == [u EXCEPT !.iter1 = k1.self, !.iter2 = k2.self]
        n1 == Peekable_next(v.iter1)
        n2 == Peekable_next(v.iter2)
    IN IF k1.item = None THEN Ret(None, v)
       ELSE IF k2.item = None THEN Ret(n1.item, [v EXCEPT !.iter1 = n1.self])
       ELSE IF k1.item[1] < k2.item[1]
            THEN DifferenceRevsetIterator_next([v EXCEPT !.iter2 = n2.self])
       ELSE IF k1.item[1] = k2.item[1]
            THEN DifferenceRevsetIterator_next(
                     [v EXCEPT !.iter1 = n1.self, !.iter2 = n2.self])
       ELSE Ret(n1.item, [v EXCEPT !.iter1 = n1.self])

\* A filter that stops at the first candidate its predicate rejects
\* (take_while in place of filter).
FilterIterator_next_take_while(f) ==
    LET r == Iterator_next(f.iter)
    IN IF r.item = None THEN Ret(None, [f EXCEPT !.iter = r.self])
       ELSE LET c == Predicate_call(f.p, r.item[1])
                g == [f EXCEPT !.iter = r.self, !.p = c.self]
            IN IF c.item THEN Ret(r.item, g) ELSE Ret(None, g)

\* std's Filter::next for candidates.iter().filter(p): pull candidates and
\* call p on each until p accepts one.
FilterIterator_next(f) ==
    LET r == Iterator_next(f.iter)
    IN IF r.item = None THEN Ret(None, [f EXCEPT !.iter = r.self])
       ELSE LET c == Predicate_call(f.p, r.item[1])
                g == [f EXCEPT !.iter = r.self, !.p = c.self]
            IN IF c.item THEN Ret(r.item, g) ELSE FilterIterator_next(g)

\* Iterator::next of a boxed iterator: dispatch on what the box holds.
Iterator_next(i) ==
    CASE i.kind = "Slice" -> SliceIter_next(i)
      [] i.kind = "Fuse" -> Fuse_next(i)
      [] i.kind = "Peekable" -> Peekable_next(i)
      [] i.kind = "Union" -> UnionRevsetIterator_next(i)
      [] i.kind = "Intersection" -> IntersectionRevsetIterator_next(i)
      [] i.kind = "Difference" -> DifferenceRevsetIterator_next(i)
      [] i.kind = "Filter" -> FilterIterator_next(i)

\* InternalRevset::iter of each node
InternalRevset_iter(r) ==
    CASE r.kind = "Eager" -> SliceIter(r.index_entries)
      [] r.kind = "Walk" -> SliceIter(r.walk)
      [] r.kind = "Filter" ->
            [kind |-> "Filter",
             p |-> ToPredicateFn_to_predicate_fn(r.predicate),
             iter |-> InternalRevset_iter(r.candidates)]
      [] r.kind \in {"Union", "Intersection", "Difference"} ->
            [kind |-> r.kind,
             iter1 |-> Peekable(InternalRevset_iter(r.set1)),
             iter2 |-> Peekable(InternalRevset_iter(r.set2))]

\* predicate_fn_from_iter: the closure captures iter.fuse().peekable()
predicate_fn_from_iter(i) == [kind |-> "FromIter", iter |-> Peekable(Fuse(i))]

\* The closure without its while loop: entries above the query are not
\* skipped.
predicate_fn_from_iter_call_no_skip(p, e) ==
    LET hit == Peekable_next_if(p.iter, {e})
    IN Ret(hit.item # None, [p EXCEPT !.iter = hit.self])

\* The closure with next() in place of the final next_if: the entry under
\* the cursor is consumed whether or not it is the one asked for.
predicate_fn_from_iter_call_next(p, e) ==
    LET skip == Peekable_next_if(p.iter, {x \in Positions : x > e})
    IN IF skip.item # None
       THEN predicate_fn_from_iter_call([p EXCEPT !.iter = skip.self], e)
       ELSE LET hit == Peekable_next(skip.self)
            IN Ret(hit.item = Some(e), [p EXCEPT !.iter = hit.self])

\* The closure with peek() in place of the final next_if: the entry asked
\* for stays under the cursor.
predicate_fn_from_iter_call_peek(p, e) ==
    LET skip == Peekable_next_if(p.iter, {x \in Positions : x > e})
    IN IF skip.item # None
       THEN predicate_fn_from_iter_call([p EXCEPT !.iter = skip.self], e)
       ELSE LET hit == Peekable_peek(skip.self)
            IN Ret(hit.item = Some(e), [p EXCEPT !.iter = hit.self])

\* The closure of predicate_fn_from_iter called with an entry at position e
\* (one turn of its while loop per unfolding).
predicate_fn_from_iter_call(p, e) ==
    LET skip == Peekable_next_if(p.iter, {x \in Positions : x > e})
    IN IF skip.item # None
       THEN predicate_fn_from_iter_call([p EXCEPT !.iter = skip.self], e)
       ELSE LET hit == Peekable_next_if(skip.self, {e})
            IN Ret(hit.item # None, [p EXCEPT !.iter = hit.self])

\* p1(entry) && p2(entry): p2 is called only when p1 returned true.
AndClosure_call(p, e) ==
    LET c1 == Predicate_call(p.p1, e)
        c2 == Predicate_call(p.p2, e)
    IN IF c1.item THEN Ret(c2.item, [p EXCEPT !.p1 = c1.self, !.p2 = c2.self])
       ELSE Ret(FALSE, [p EXCEPT !.p1 = c1.self])

\* p1(entry) && !p2(entry)
AndNotClosure_call(p, e) ==
    LET c1 == Predicate_call(p.p1, e)
        c2 == Predicate_call(p.p2, e)
    IN IF c1.item THEN Ret(~c2.item, [p EXCEPT !.p1 = c1.self, !.p2 = c2.self])
       ELSE Ret(FALSE, [p EXCEPT !.p1 = c1.self])

\* A disjunction that forgets its first operand: only p2 is called.
OrClosure_call_p2_only(p, e) ==
    LET c2 == Predicate_call(p.p2, e)
    IN Ret(c2.item, [p EXCEPT !.p2 = c2.self])

\* p1(entry) || p2(entry): p2 is called only when p1 returned false.
OrClosure_call(p, e) ==
    LET c1 == Predicate_call(p.p1, e)
        c2 == Predicate_call(p.p2, e)
    IN IF c1.item THEN Ret(TRUE, [p EXCEPT !.p1 = c1.self])
       ELSE Ret(c2.item, [p EXCEPT !.p1 = c1.self, !.p2 = c2.self])

\* !p(entry)
NotClosure_call(p, e) ==
    LET c == Predicate_call(p.p, e)
    IN Ret(~c.item, [p EXCEPT !.p = c.self])

\* A call of a boxed FnMut(&IndexEntry) -> bool
Predicate_call(p, e) ==
    CASE p.kind = "FromIter" -> predicate_fn_from_iter_call(p, e)
      [] p.kind = "And" -> AndClosure_call(p, e)
      [] p.kind = "AndNot" -> AndNotClosure_call(p, e)
      [] p.kind = "Or" -> OrClosure_call(p, e)
      [] p.kind = "Not" -> NotClosure_call(p, e)
      [] p.kind = "PureFn" -> Ret(e \in p.accept, p)

\* ToPredicateFn::to_predicate_fn of each node
ToPredicateFn_to_predicate_fn(r) ==
    CASE r.kind = "Eager" -> predicate_fn_from_iter(InternalRevset_iter(r))
      [] r.kind = "Walk" -> predicate_fn_from_iter(SliceIter(r.walk))
      [] r.kind = "Filter" ->
            [kind |-> "And",
             p1 |-> ToPredicateFn_to_predicate_fn(r.candidates),
             p2 |-> ToPredicateFn_to_predicate_fn(r.predicate)]
      [] r.kind = "NotIn" ->
            [kind |-> "Not", p |-> ToPredicateFn_to_predicate_fn(r.s)]
      [] r.kind \in {"Union", "UnionPredicate"} ->
            [kind |-> "Or",
             p1 |-> ToPredicateFn_to_predicate_fn(r.set1),
             p2 |-> ToPredicateFn_to_predicate_fn(r.set2)]
      [] r.kind = "Intersection" ->
            [kind |-> "And",
             p1 |-> ToPredicateFn_to_predicate_fn(r.set1),
             p2 |-> ToPredicateFn_to_predicate_fn(r.set2)]
      [] r.kind = "Difference" ->
            [kind |-> "AndNot",
             p1 |-> ToPredicateFn_to_predicate_fn(r.set1),
             p2 |-> ToPredicateFn_to_predicate_fn(r.set2)]
      [] r.kind = "Pure" -> [kind |-> "PureFn", accept |-> r.accept]

(***************************************************************************)
(* The operator trees the behaviours start from.  Leaves are the Eager     *)
(* sets of every subset of the positions, in descending position as        *)
(* revset_for_commit_ids and the other builders of EagerRevset leave them. *)
(***************************************************************************)
Leaves == {EagerRevset(SortDesc(S)) : S \in SUBSET Positions}

\* Walks in descending position, as walk_revs yields them.
Walks == {RevWalkRevset(SortDesc(S)) : S \in SUBSET Positions}

\* The three merge nodes evaluate builds from two evaluated operands.
MergeOps(A, B) ==
    {UnionRevset(a, b) : a \in A, b \in B}
        \cup {IntersectionRevset(a, b) : a \in A, b \in B}
        \cup {DifferenceRevset(a, b) : a \in A, b \in B}

\* The four set nodes of two evaluated operands; the second operand of a
\* FilterRevset is a set used as predicate
\* (ResolvedPredicateExpression::Set, into_predicate).
SetOps(A, B) == MergeOps(A, B) \cup {FilterRevset(a, b) : a \in A, b \in B}

\* One operator over leaves.
FlatTrees == SetOps(Leaves, Leaves)

\* The predicate-only nodes evaluate_predicate builds over leaf sets, and
\* pure filter functions.
LeafPredicates ==
    {NotInPredicate(l) : l \in Leaves}
        \cup {UnionPredicate(a, b) : a \in Leaves, b \in Leaves}
        \cup {UnionPredicate(a, NotInPredicate(b)) : a \in Leaves, b \in Leaves}
        \cup {PurePredicateFn(S) : S \in SUBSET Positions}

RECURSIVE Members(_)
\* The set of positions an operator tree denotes.
Members(r) ==
    CASE r.kind = "Eager" -> Range(r.index_entries)
      [] r.kind = "Walk" -> Range(r.walk)
      [] r.kind \in {"Union", "UnionPredicate"} ->
            Members(r.set1) \cup Members(r.set2)
      [] r.kind = "Intersection" -> Members(r.set1) \cap Members(r.set2)
      [] r.kind = "Difference" -> Members(r.set1) \ Members(r.set2)
      [] r.kind = "Filter" -> Members(r.candidates) \cap Members(r.predicate)
      [] r.kind = "NotIn" -> Positions \ Members(r.s)
      [] r.kind = "Pure" -> r.accept

RECURSIVE Iterator_collect(_)
\* Iterator::collect: next() until it returns None.
Iterator_collect(i) ==
    LET r == Iterator_next(i)
    IN IF r.item = None THEN <<>> ELSE <<r.item[1]>> \o Iterator_collect(r.self)

Idle == <<>>

NoIteration == iter = Idle /\ out = <<>> /\ done = FALSE
NoClosure == closure = Idle /\ before = Idle /\ asked = <<>> /\ answers = <<>>
NoIndex ==
    /\ index = Idle /\ store = Idle /\ ids = Idle /\ heads_order = Idle
    /\ expression = Idle /\ reachable = Idle
NoRange == generation = Idle /\ converted = Idle
NoResult == result = Idle
NoIdIndex == id_index = Idle
NoChangeIds == change_ids = Idle
NoCursors == constructed = Idle /\ earlier = <<>>
NoBar == bar = Idle /\ buf = <<>>
NoProgress == this = Idle /\ clock = Idle /\ term = Idle

(***************************************************************************)
(* Iteration: the consumer takes revset.iter() and pulls from it.          *)
(***************************************************************************)
StartIter ==
    /\ scen = "iter"
    /\ iter = InternalRevset_iter(revset)
    /\ out = <<>>
    /\ done = FALSE
    /\ NoClosure
    /\ NoIndex
    /\ NoRange
    /\ NoResult
    /\ NoChangeIds
    /\ NoCursors
    /\ NoBar
    /\ NoProgress
    /\ NoIdIndex

InitIter ==
    /\ \/ revset \in Leaves \cup Walks
       \/ revset \in FlatTrees
       \/ \E a \in FlatTrees, b \in Leaves :
             revset \in SetOps({a}, {b}) \cup SetOps({b}, {a})
    /\ StartIter

\* One call of next() on the iterator of the root node.
Pull ==
    /\ scen = "iter"
    /\ ~done
    /\ LET r == Iterator_next(iter)
       IN /\ iter' = r.self
          /\ out' = IF r.item = None THEN out ELSE Append(out, r.item[1])
          /\ done' = (r.item = None)
    /\ UNCHANGED <<scen, revset, closure, before, asked, answers,
                   index, store, ids, heads_order, expression,
                   generation, converted, reachable, result, id_index, change_ids,
                   constructed, earlier,
                   bar, buf, this, clock, term>>

NextIter == Pull

SpecIter == InitIter /\ [][NextIter]_vars

(***************************************************************************)
(* Membership tests: the consumer takes revset.to_predicate_fn() and       *)
(* calls the closure.                                                      *)
(***************************************************************************)
StartPred ==
    /\ scen = "pred"
    /\ closure = ToPredicateFn_to_predicate_fn(revset)
    /\ before = closure
    /\ asked = <<>>
    /\ answers = <<>>
    /\ NoIteration
    /\ NoIndex
    /\ NoRange
    /\ NoResult
    /\ NoChangeIds
    /\ NoCursors
    /\ NoBar
    /\ NoProgress
    /\ NoIdIndex

\* One call of the closure with the entry at position e.
Call(e) ==
    /\ scen = "pred"
    /\ LET r == Predicate_call(closure, e)
       IN /\ closure' = r.self
          /\ answers' = Append(answers, r.item)
    /\ asked' = Append(asked, e)
    /\ UNCHANGED <<scen, revset, iter, out, done,
                   index, store, ids, heads_order, expression,
                   generation, converted, reachable, result, id_index, change_ids,
                   constructed, earlier,
                   bar, buf, this, clock, term>>

\* The contract of ToPredicateFn: the closure is evaluated in the order of
\* the iterator, that is with strictly decreasing positions.
CallInOrder ==
    \E e \in Positions :
        /\ asked # <<>> => e < asked[Len(asked)]
        /\ Call(e)
        /\ UNCHANGED before

\* set.iter().collect_vec(), as test_revset_combinator does before it takes
\* the closure of a set: a separate iterator, run to its end.
Collect ==
    /\ scen = "collect"
    /\ scen' = "pred"
    /\ out' = Iterator_collect(InternalRevset_iter(revset))
    /\ done' = TRUE
    /\ UNCHANGED <<revset, iter, closure, before, asked, answers,
                   index, store, ids, heads_order, expression,
                   generation, converted, reachable, result, id_index, change_ids,
                   constructed, earlier,
                   bar, buf, this, clock, term>>

StartCollect ==
    /\ scen = "collect"
    /\ closure = ToPredicateFn_to_predicate_fn(revset)
    /\ before = closure
    /\ asked = <<>>
    /\ answers = <<>>
    /\ NoIteration
    /\ NoIndex
    /\ NoRange
    /\ NoResult
    /\ NoChangeIds
    /\ NoCursors
    /\ NoBar
    /\ NoProgress
    /\ NoIdIndex

\* The closure of a FilterRevset over two sets is built like that of an
\* IntersectionRevset, so the operand of a nested tree is a merge node.
InitPred ==
    /\ \/ revset \in Leaves \cup Walks
       \/ revset \in FlatTrees
       \/ \E a \in MergeOps(Leaves, Leaves), b \in Leaves :
             revset \in SetOps({a}, {b}) \cup SetOps({b}, {a})
    /\ StartCollect

NextPred == Collect \/ CallInOrder

SpecPred == InitPred /\ [][NextPred]_vars

(***************************************************************************)
(* A FilterRevset at the root, iterated or used as a predicate.            *)
(***************************************************************************)
InitFilter ==
    /\ \/ \E c \in Leaves, p \in Leaves \cup LeafPredicates :
             revset = FilterRevset(c, p)
       \/ \E c \in FlatTrees, l \in Leaves :
             revset \in {FilterRevset(c, l), FilterRevset(c, NotInPredicate(l))}
    /\ StartIter \/ StartPred

NextFilter == Pull \/ CallInOrder

SpecFilter == InitFilter /\ [][NextFilter]_vars

(***************************************************************************)
(* Membership tests outside the contract: the closure is called with       *)
(* positions in any order.                                                 *)
(***************************************************************************)
\* Calls made to one closure in a behaviour.
MaxCalls == 3

InitCalls ==
    /\ revset \in Leaves \cup Walks \cup FlatTrees
    /\ StartPred

CallAny ==
    \E e \in Positions :
        /\ Len(asked) < MaxCalls
        /\ Call(e)
        /\ before' = closure

NextCalls == CallAny

SpecCalls == InitCalls /\ [][NextCalls]_vars

(***************************************************************************)
(* The index and the evaluator.  The composite index is a commit graph on  *)
(* the positions: index[p] is the set of parent positions of the entry at  *)
(* position p, every parent at a smaller position than its child.          *)
(***************************************************************************)
(* Generation ranges.  A u64 is the sequence of its four 16-bit limbs and  *)
(* a u32 the sequence of its two, most significant limb first, so that     *)
(* every value of either width is a value of the model.                    *)
(***************************************************************************)
Limbs == 0..65535
u64_from(n) == <<0, 0, 0, n>>
u64_MAX == <<65535, 65535, 65535, 65535>>
u32_MAX == <<65535, 65535>>
\* start..end
Range_u64(start, end) == [start |-> start, end |-> end]
\* revset::GENERATION_RANGE_FULL, 0..u64::MAX
GENERATION_RANGE_FULL == Range_u64(u64_from(0), u64_MAX)
\* The range 1..2 of the children fast path of DagRange
GENERATION_RANGE_CHILDREN == Range_u64(u64_from(1), u64_from(2))

\* Result::Ok and Result::Err
Ok(value) == [ok |-> TRUE, value |-> value]
Err(error) == [ok |-> FALSE, error |-> error]

\* u32::try_from(u64): the value fits when its upper 32 bits are zero.
u32_try_from(value) ==
    IF value[1] = 0 /\ value[2] = 0
    THEN Ok(<<value[3], value[4]>>)
    ELSE Err("TryFromIntError")

\* RevsetEvaluationError::Other(format!("Lower bound of generation ({}) is
\* too large", start)): the message with the value formatted into it.
LowerBoundTooLarge(start) ==
    [kind |-> "Other",
     message |-> <<"Lower bound of generation (", start, ") is too large">>]

\* to_u32_generation_range with an upper bound that fails as the lower does.
to_u32_generation_range_strict(range) ==
    IF u32_try_from(range.start).ok /\ u32_try_from(range.end).ok
    THEN Ok([start |-> u32_try_from(range.start).value,
             end |-> u32_try_from(range.end).value])
    ELSE Err(LowerBoundTooLarge(range.start))

\* to_u32_generation_range
to_u32_generation_range(range) ==
    LET start == u32_try_from(range.start)
        end == u32_try_from(range.end)
    IN IF ~start.ok THEN Err(LowerBoundTooLarge(range.start))
       ELSE Ok([start |-> start.value,
                end |-> IF end.ok THEN end.value ELSE u32_MAX])

(***************************************************************************)
Graphs ==
    {g \in [Positions -> SUBSET Positions] :
        \A p \in Positions : \A q \in g[p] : q < p}

\* IndexEntry::parent_positions
parent_positions(p) == index[p]

RECURSIVE Closure(_)
\* The given positions and all their ancestors.
Closure(S) ==
    LET up == S \cup UNION {parent_positions(p) : p \in S}
    IN IF up = S THEN S ELSE Closure(up)

\* CompositeIndex::walk_revs: the ancestors of the heads that are not
\* ancestors of the roots, in descending position.  A RevWalk is modelled by
\* the sequence of entries it has yet to yield.
walk_revs(heads, roots) == SortDesc(Closure(Range(heads)) \ Closure(Range(roots)))

RECURSIVE take_while_at_least(_, _)
take_while_at_least(walk, bottom) ==
    IF walk = <<>> \/ Head(walk) < bottom THEN <<>>
    ELSE <<Head(walk)>> \o take_while_at_least(Tail(walk), bottom)

\* RevWalk::take_until_roots: the walk stops below the least root position,
\* and yields nothing when there is no root.
take_until_roots(walk, root_positions) ==
    IF root_positions = <<>> THEN <<>>
    ELSE LET bottom == CHOOSE b \in Range(root_positions) :
                           \A r \in Range(root_positions) : b <= r
         IN take_while_at_least(walk, bottom)

Reverse(s) == [i \in 1..Len(s) |-> s[Len(s) + 1 - i]]

\* EvaluationContext::walk_ancestors
walk_ancestors(head_set) ==
    walk_revs(Iterator_collect(InternalRevset_iter(head_set)), <<>>)

RECURSIVE collect_dag_range_loop(_, _, _, _)
\* The for loop of collect_dag_range over the remaining candidates, with a
\* parent in a root set only in place of the reachable set.
collect_dag_range_loop_roots_only(candidates, root_positions, reachable_positions, index_entries) ==
    IF candidates = <<>>
    THEN [index_entries |-> index_entries,
          reachable_positions |-> reachable_positions]
    ELSE LET candidate == Head(candidates)
         IN IF \/ candidate \in root_positions
               \/ \E parent_pos \in parent_positions(candidate) :
                     parent_pos \in root_positions
            THEN collect_dag_range_loop(
                     Tail(candidates), root_positions,
                     reachable_positions \cup {candidate},
                     Append(index_entries, candidate))
            ELSE collect_dag_range_loop(
                     Tail(candidates), root_positions, reachable_positions,
                     index_entries)

\* The for loop of collect_dag_range over the remaining candidates.
collect_dag_range_loop(candidates, root_positions, reachable_positions, index_entries) ==
    IF candidates = <<>>
    THEN [index_entries |-> index_entries,
          reachable_positions |-> reachable_positions]
    ELSE LET candidate == Head(candidates)
         IN IF \/ candidate \in root_positions
               \/ \E parent_pos \in parent_positions(candidate) :
                     parent_pos \in reachable_positions
            THEN collect_dag_range_loop(
                     Tail(candidates), root_positions,
                     reachable_positions \cup {candidate},
                     Append(index_entries, candidate))
            ELSE collect_dag_range_loop(
                     Tail(candidates), root_positions, reachable_positions,
                     index_entries)

\* collect_dag_range from the collected root positions and the walk from
\* the heads: the pair it returns.
collect_dag_range_from(root_positions, walk) ==
    LET r == collect_dag_range_loop(
                 Reverse(take_until_roots(walk, root_positions)),
                 Range(root_positions), {}, <<>>)
    IN [set |-> EagerRevset(Reverse(r.index_entries)),
        reachable |-> r.reachable_positions]

\* EvaluationContext::collect_dag_range: the pair it returns.
collect_dag_range(root_set, head_set) ==
    collect_dag_range_from(
        Iterator_collect(InternalRevset_iter(root_set)),
        walk_ancestors(head_set))

\* The candidates and the predicate of walk_children with a predicate that
\* accepts every entry that has a parent.
walk_children_from_any_parent(root_positions, walk) ==
    FilterRevset(
        RevWalkRevset(take_until_roots(walk, root_positions)),
        PurePredicateFn({entry \in Positions : parent_positions(entry) # {}}))

\* The candidates and the predicate of walk_children with a predicate that
\* accepts the roots as well as their children.
walk_children_from_roots_too(root_positions, walk) ==
    FilterRevset(
        RevWalkRevset(take_until_roots(walk, root_positions)),
        PurePredicateFn(
            {entry \in Positions :
                \/ entry \in Range(root_positions)
                \/ \E parent_pos \in parent_positions(entry) :
                       parent_pos \in Range(root_positions)}))

\* walk_children from the collected root positions and the walk from the
\* heads: the FilterRevset of the walk cut at the roots and of the
\* predicate "a parent position is a root position".
walk_children_from(root_positions, walk) ==
    FilterRevset(
        RevWalkRevset(take_until_roots(walk, root_positions)),
        PurePredicateFn(
            {entry \in Positions :
                \E parent_pos \in parent_positions(entry) :
                    parent_pos \in Range(root_positions)}))

\* EvaluationContext::walk_children
walk_children(root_set, head_set) ==
    walk_children_from(
        Iterator_collect(InternalRevset_iter(root_set)),
        walk_ancestors(head_set))

\* The retain of the Roots arm with the candidate set in place of filled.
evaluate_Roots_retain_direct_parents(candidate_set, filled) ==
    LET NoParentInSet(candidate) ==
            ~\E parent \in parent_positions(candidate) :
                 parent \in Range(candidate_set.index_entries)
    IN [set |-> EagerRevset(SelectSeq(candidate_set.index_entries, NoParentInSet)),
        reachable |-> filled]

\* The retain of the Roots arm: the candidates with no parent in filled.
evaluate_Roots_retain(candidate_set, filled) ==
    LET NoParentFilled(candidate) ==
            ~\E parent \in parent_positions(candidate) : parent \in filled
    IN [set |-> EagerRevset(SelectSeq(candidate_set.index_entries, NoParentFilled)),
        reachable |-> filled]

\* The Roots arm from the collected candidate set.
evaluate_Roots_of(candidate_set) ==
    evaluate_Roots_retain(
        candidate_set,
        collect_dag_range(candidate_set, candidate_set).reachable)

\* The Roots arm of evaluate: the set it returns, and filled.
evaluate_Roots(candidates) ==
    evaluate_Roots_of(
        EagerRevset(Iterator_collect(InternalRevset_iter(candidates))))

(***************************************************************************)
(* Commit ids.  An entry is known by its position; its commit id is        *)
(* another value, which the index maps back to the entry.                  *)
(***************************************************************************)
CommitId(k) == <<"commit", k>>
\* The ids of the commits in the index, and one of a commit that is not.
CommitIds == {CommitId(k) : k \in Positions}
AbsentCommitId == CommitId(MaxPos + 1)

\* The tables of ids: every entry has its own.
IdTables ==
    {t \in [Positions -> CommitIds] :
        \A p \in Positions : \A q \in Positions : t[p] = t[q] => p = q}

\* IndexEntry::commit_id
commit_id(entry) == ids[entry]

\* CompositeIndex::entry_by_id: the entry of the id, or None.
entry_by_id(id) ==
    IF \E p \in Positions : ids[p] = id
    THEN Some(CHOOSE p \in Positions : ids[p] = id)
    ELSE None

RECURSIVE insert_by_key_Reverse(_, _)
\* One step of the sort by Reverse(position): x goes before the first
\* element that is not above it.
insert_by_key_Reverse(x, sorted) ==
    IF sorted = <<>> \/ x >= Head(sorted) THEN <<x>> \o sorted
    ELSE <<Head(sorted)>> \o insert_by_key_Reverse(x, Tail(sorted))

RECURSIVE sort_unstable_by_key_Reverse(_)
\* index_entries.sort_unstable_by_key(|b| Reverse(b.position()))
sort_unstable_by_key_Reverse(index_entries) ==
    IF index_entries = <<>> THEN <<>>
    ELSE insert_by_key_Reverse(
             Head(index_entries),
             sort_unstable_by_key_Reverse(Tail(index_entries)))

RECURSIVE Vec_dedup(_)
\* Vec::dedup: of consecutive equal elements the first is kept.
Vec_dedup(v) ==
    IF Len(v) < 2 THEN v
    ELSE IF v[1] = v[2] THEN Vec_dedup(Tail(v))
         ELSE <<v[1]>> \o Vec_dedup(Tail(v))

\* The entries of revset_for_commit_ids deduplicated before they are sorted.
revset_for_entries_dedup_first(index_entries) ==
    EagerRevset(sort_unstable_by_key_Reverse(Vec_dedup(index_entries)))

\* revset_for_commit_ids once the entries are looked up: sort, then dedup.
revset_for_entries(index_entries) ==
    EagerRevset(Vec_dedup(sort_unstable_by_key_Reverse(index_entries)))

\* EvaluationContext::revset_for_commit_ids; entry_by_id(id).unwrap()
\* panics on an id that is not in the index.
revset_for_commit_ids(commit_ids) ==
    IF \E i \in 1..Len(commit_ids) : entry_by_id(commit_ids[i]) = None
    THEN [panic |-> TRUE]
    ELSE [panic |-> FALSE,
          set |-> revset_for_entries(
                      [i \in 1..Len(commit_ids) |->
                          entry_by_id(commit_ids[i])[1]])]

\* The orders of the positions.
Orders ==
    {o \in [1..(MaxPos + 1) -> Positions] :
        \A i \in 1..(MaxPos + 1) : \A j \in 1..(MaxPos + 1) :
            o[i] = o[j] => i = j}

\* CompositeIndex::heads: the ids given that are not the id of an ancestor
\* of another id given, in the order the index returns them.
heads(candidate_ids) ==
    LET given == {entry_by_id(id)[1] : id \in Range(candidate_ids)}
        IsHead(p) == p \in given /\ \A q \in given \ {p} : p \notin Closure({q})
        in_order == SelectSeq(heads_order, IsHead)
    IN [i \in 1..Len(in_order) |-> commit_id(in_order[i])]

\* The Heads arm with the entries taken as index.heads returns their ids.
evaluate_Heads_from_unsorted(candidate_ids) ==
    [panic |-> FALSE,
     set |-> EagerRevset([i \in 1..Len(heads(candidate_ids)) |->
                             entry_by_id(heads(candidate_ids)[i])[1]])]

\* The Heads arm from the ids of the candidates.
evaluate_Heads_from(candidate_ids) ==
    revset_for_commit_ids(heads(candidate_ids))

\* Iterator::map(|entry| entry.commit_id()) over collected entries
map_commit_id(entries) == [i \in 1..Len(entries) |-> commit_id(entries[i])]

\* The Heads arm of evaluate.
evaluate_Heads(candidate_set) ==
    evaluate_Heads_from(
        map_commit_id(Iterator_collect(InternalRevset_iter(candidate_set))))

(***************************************************************************)
(* take_latest_revset.  The BinaryHeap of Reverse(Item) is modelled by the *)
(* set of its items: its greatest element is the least Item.               *)
(***************************************************************************)
MaxTime == 1
Timestamps == 0..MaxTime
\* The stores: a committer timestamp for the commit of every entry.
Stores == [Positions -> Timestamps]

\* Item { timestamp, entry }
Item(timestamp, entry) == [timestamp |-> timestamp, entry |-> entry]

\* An order of items by position alone.
Item_lt_by_position(a, b) == a.entry < b.entry

\* a < b in the derived Ord of Item: by timestamp, then by the position of
\* the entry (IndexEntryByPosition).
Item_lt(a, b) ==
    \/ a.timestamp < b.timestamp
    \/ a.timestamp = b.timestamp /\ a.entry < b.entry

\* make_rev_item: the commit of the entry is read from the store.
make_rev_item(entry) == Item(store[entry], entry)

\* Iterator::map(make_rev_item) over the entries candidate_set.iter() yields
map_make_rev_item(entries) ==
    [i \in 1..Len(entries) |-> make_rev_item(entries[i])]

\* BinaryHeap::peek_mut on a heap of Reverse(Item): the least item, or None.
BinaryHeap_peek_mut(latest_items) ==
    IF latest_items = {} THEN None
    ELSE Some(CHOOSE earliest \in latest_items :
                  \A other \in latest_items :
                      other = earliest \/ Item_lt(earliest, other))

\* take(count) that stops one item early.
Iterator_take_one_less(items, count) ==
    SubSeq(items, 1, IF count - 1 < Len(items) THEN count - 1 ELSE Len(items))

\* Iterator::take(count) of a sequence, and what is left after it.
Iterator_take(items, count) ==
    SubSeq(items, 1, IF count < Len(items) THEN count ELSE Len(items))
Iterator_after_take(items, count) ==
    SubSeq(items, (IF count < Len(items) THEN count ELSE Len(items)) + 1,
           Len(items))

RECURSIVE take_latest_loop(_, _)
\* for item in candidate_iter: the heap after the loop, or a panic of
\* peek_mut().unwrap().
take_latest_loop(items, latest_items) ==
    IF items = <<>> THEN [panic |-> FALSE, latest_items |-> latest_items]
    ELSE LET earliest == BinaryHeap_peek_mut(latest_items)
             item == Head(items)
         IN IF earliest = None THEN [panic |-> TRUE, latest_items |-> latest_items]
            ELSE take_latest_loop(
                     Tail(items),
                     IF Item_lt(earliest[1], item)
                     THEN (latest_items \ {earliest[1]}) \cup {item}
                     ELSE latest_items)

\* take_latest_revset from the items of the candidates: the heap is seeded
\* with the first count items and the loop runs over the rest.
take_latest_from(items, count) ==
    LET r == take_latest_loop(
                 Iterator_after_take(items, count),
                 Range(Iterator_take(items, count)))
    IN IF r.panic \/ ~(Cardinality(r.latest_items) <= count)
       THEN [panic |-> TRUE]
       ELSE [panic |-> FALSE,
             set |-> EagerRevset(
                         SortDesc({latest.entry : latest \in r.latest_items}))]

\* EvaluationContext::take_latest_revset
take_latest_revset(candidate_set, count) ==
    IF count = 0 THEN [panic |-> FALSE, set |-> EagerRevset(<<>>)]
    ELSE take_latest_from(
             map_make_rev_item(
                 Iterator_collect(InternalRevset_iter(candidate_set))),
             count)

\* EvaluationContext::evaluate on an expression over the commit graph whose
\* operands are evaluated already: a Roots node, or a DagRange node with
\* the range 1..2 or the full generation range.  The field reachable is
\* the set of positions collect_dag_range returned with the revset, if it
\* was called.
evaluate(e) ==
    CASE e.kind = "Roots" ->
            [panic |-> FALSE] @@ evaluate_Roots(e.candidates)
      [] e.kind = "DagRange" ->
            IF e.generation_from_roots = GENERATION_RANGE_CHILDREN
            THEN [panic |-> FALSE, set |-> walk_children(e.roots, e.heads),
                  reachable |-> Idle]
            ELSE [panic |-> FALSE] @@ collect_dag_range(e.roots, e.heads)

\* The Latest arm of evaluate
evaluate_Latest(e) ==
    [reachable |-> Idle] @@ take_latest_revset(e.candidates, e.count)

\* The Commits arm of evaluate
evaluate_Commits(e) ==
    [reachable |-> Idle] @@ revset_for_commit_ids(e.commit_ids)

\* The expressions over a commit graph.
Expressions ==
    {[kind |-> "Roots", candidates |-> c] : c \in Leaves}
        \cup {[kind |-> "DagRange", roots |-> r, heads |-> h,
               generation_from_roots |-> g] :
                r \in Leaves, h \in Leaves,
                g \in {GENERATION_RANGE_CHILDREN, GENERATION_RANGE_FULL}}

MaxCount == 4
\* The expressions over the timestamps of the commits.
LatestExpressions ==
    {[kind |-> "Latest", candidates |-> c, count |-> n] :
        c \in Leaves, n \in 0..MaxCount}

\* A history where every commit but the first has the one before as parent.
LinearHistory == [p \in Positions |-> IF p = 0 THEN {} ELSE {p - 1}]

MaxIds == 3
RECURSIVE SeqsUpTo(_, _)
\* The sequences over S of length n at most.
SeqsUpTo(S, n) ==
    IF n = 0 THEN {<<>>}
    ELSE SeqsUpTo(S, n - 1)
             \cup {Append(q, x) : q \in {r \in SeqsUpTo(S, n - 1) : Len(r) = n - 1},
                                  x \in S}

\* The expressions over the ids of the commits.
CommitsExpressions ==
    {[kind |-> "Commits", commit_ids |-> c] :
        c \in SeqsUpTo(CommitIds \cup {AbsentCommitId}, MaxIds)}

\* The expressions whose result goes through index.heads.
HeadsExpressions == {[kind |-> "Heads", candidates |-> c] : c \in Leaves}

\* A store and a table of ids for the behaviours that read neither.
AnyStore == [p \in Positions |-> 0]
AnyIds == [p \in Positions |-> CommitId(MaxPos - p)]
AnyOrder == [i \in 1..(MaxPos + 1) |-> i - 1]

\* What a behaviour of the evaluator starts with, besides its expression.
StartEval ==
    /\ scen = "eval"
    /\ revset = Idle
    /\ reachable = Idle
    /\ NoIteration
    /\ NoClosure
    /\ NoRange
    /\ NoResult
    /\ NoChangeIds
    /\ NoCursors
    /\ NoBar
    /\ NoProgress
    /\ NoIdIndex

InitEval ==
    /\ index \in Graphs
    /\ store = AnyStore /\ ids = AnyIds /\ heads_order = AnyOrder
    /\ expression \in Expressions
    /\ StartEval

\* The revset an arm of evaluate returned is kept and its iter() taken,
\* unless the arm panicked.
Evaluated_as(r) ==
    /\ IF r.panic
       THEN /\ scen' = "panic"
            /\ UNCHANGED <<revset, reachable, iter>>
       ELSE /\ scen' = "iter"
            /\ revset' = r.set
            /\ reachable' = r.reachable
            /\ iter' = InternalRevset_iter(r.set)
    /\ UNCHANGED <<out, done, closure, before, asked, answers,
                   index, store, ids, heads_order, expression,
                   generation, converted, result, id_index, change_ids,
                   constructed, earlier,
                   bar, buf, this, clock, term>>

\* evaluate(expression) of an expression over the graph, and iter() of the
\* revset it returns.
Evaluate ==
    /\ scen = "eval"
    /\ expression.kind \in {"Roots", "DagRange"}
    /\ Evaluated_as(evaluate(expression))

NextEval == Evaluate \/ Pull

SpecEval == InitEval /\ [][NextEval]_vars

(***************************************************************************)
(* Latest, Commits and Heads expressions, each over what it reads.         *)
(***************************************************************************)
InitLatest ==
    /\ index = LinearHistory
    /\ store \in Stores /\ ids = AnyIds /\ heads_order = AnyOrder
    /\ expression \in LatestExpressions
    /\ StartEval

EvaluateLatest ==
    /\ scen = "eval"
    /\ expression.kind = "Latest"
    /\ Evaluated_as(evaluate_Latest(expression))

NextLatest == EvaluateLatest \/ Pull

SpecLatest == InitLatest /\ [][NextLatest]_vars

InitCommits ==
    /\ index = LinearHistory
    /\ store = AnyStore /\ ids \in IdTables /\ heads_order = AnyOrder
    /\ expression \in CommitsExpressions
    /\ StartEval

EvaluateCommits ==
    /\ scen = "eval"
    /\ expression.kind = "Commits"
    /\ Evaluated_as(evaluate_Commits(expression))

NextCommits == EvaluateCommits \/ Pull

SpecCommits == InitCommits /\ [][NextCommits]_vars

InitHeads ==
    /\ index \in Graphs
    /\ store = AnyStore /\ ids = AnyIds /\ heads_order \in Orders
    /\ expression \in HeadsExpressions
    /\ StartEval

EvaluateHeads ==
    /\ scen = "eval"
    /\ expression.kind = "Heads"
    /\ Evaluated_as([reachable |-> Idle] @@ evaluate_Heads(expression.candidates))

NextHeads == EvaluateHeads \/ Pull

SpecHeads == InitHeads /\ [][NextHeads]_vars

(***************************************************************************)
(* Errors of evaluate.  Here the revset evaluate builds is kept as the     *)
(* tree of its nodes, and a call that cannot fail (a walk of the index, a  *)
(* lookup, a sort) is kept as the call with its arguments: what decides    *)
(* between Ok and Err is the expression alone.                             *)
(***************************************************************************)
Called(function, args) == [call |-> function, args |-> args]

RECURSIVE EvaluationContext_evaluate(_)
RECURSIVE EvaluationContext_evaluate_predicate(_)

\* The end of the Ancestors and Range arms with a start above u32::MAX
\* saturating as the end does, in place of the error.
RevWalkRevset_by_generation_saturating(walk, generation_range) ==
    IF generation_range = GENERATION_RANGE_FULL THEN Ok(RevWalkRevset(walk))
    ELSE Ok(RevWalkRevset(
                Called("filter_by_generation",
                       <<walk, to_u32_generation_range(
                                   Range_u64(u64_from(0), generation_range.end)).value>>)))

\* The end of the Ancestors and Range arms: the walk as it is under the
\* full range, and else filtered by the range converted to u32, the error
\* of the conversion returned by the ? operator.
RevWalkRevset_by_generation(walk, generation_range) ==
    IF generation_range = GENERATION_RANGE_FULL THEN Ok(RevWalkRevset(walk))
    ELSE LET range == to_u32_generation_range(generation_range)
         IN IF ~range.ok THEN Err(range.error)
            ELSE Ok(RevWalkRevset(
                        Called("filter_by_generation", <<walk, range.value>>)))

\* The end of the DagRange arm, from the evaluated roots and heads.
evaluate_DagRange_by_generation(root_set, head_set, generation_from_roots) ==
    IF generation_from_roots = GENERATION_RANGE_CHILDREN
    THEN Ok(Called("walk_children", <<root_set, head_set>>))
    ELSE IF generation_from_roots = GENERATION_RANGE_FULL
    THEN Ok(Called("collect_dag_range", <<root_set, head_set>>))
    ELSE LET range == to_u32_generation_range(generation_from_roots)
         IN IF ~range.ok THEN Err(range.error)
            ELSE Ok(EagerRevset(
                        Called("descendants_filtered_by_generation",
                               <<Called("walk_ancestors", <<head_set>>),
                                 root_set, range.value>>)))

\* EvaluationContext::evaluate as a Result: every self.evaluate(..)? returns
\* the error of the operand before anything else of the arm is done.
EvaluationContext_evaluate(e) ==
    CASE e.kind = "Commits" ->
            Ok(Called("revset_for_commit_ids", <<e.commit_ids>>))
      [] e.kind = "Ancestors" ->
            LET head_set == EvaluationContext_evaluate(e.heads)
            IN IF ~head_set.ok THEN head_set
               ELSE RevWalkRevset_by_generation(
                        Called("walk_ancestors", <<head_set.value>>),
                        e.generation)
      [] e.kind = "Range" ->
            LET root_set == EvaluationContext_evaluate(e.roots)
                head_set == EvaluationContext_evaluate(e.heads)
            IN IF ~root_set.ok THEN root_set
               ELSE IF ~head_set.ok THEN head_set
               ELSE RevWalkRevset_by_generation(
                        Called("walk_revs", <<head_set.value, root_set.value>>),
                        e.generation)
      [] e.kind = "DagRange" ->
            LET root_set == EvaluationContext_evaluate(e.roots)
                head_set == EvaluationContext_evaluate(e.heads)
            IN IF ~root_set.ok THEN root_set
               ELSE IF ~head_set.ok THEN head_set
               ELSE evaluate_DagRange_by_generation(
                        root_set.value, head_set.value, e.generation_from_roots)
      [] e.kind = "Heads" ->
            LET candidate_set == EvaluationContext_evaluate(e.candidates)
            IN IF ~candidate_set.ok THEN candidate_set
               ELSE Ok(Called("revset_for_commit_ids",
                              <<Called("heads", <<candidate_set.value>>)>>))
      [] e.kind = "Roots" ->
            LET candidate_set == EvaluationContext_evaluate(e.candidates)
            IN IF ~candidate_set.ok THEN candidate_set
               ELSE Ok(EagerRevset(Called("retain", <<candidate_set.value>>)))
      [] e.kind = "Latest" ->
            LET candidate_set == EvaluationContext_evaluate(e.candidates)
            IN IF ~candidate_set.ok THEN candidate_set
               ELSE Ok(Called("take_latest_revset",
                              <<candidate_set.value, e.count>>))
      [] e.kind = "Union" ->
            LET set1 == EvaluationContext_evaluate(e.expression1)
                set2 == EvaluationContext_evaluate(e.expression2)
            IN IF ~set1.ok THEN set1
               ELSE IF ~set2.ok THEN set2
               ELSE Ok(UnionRevset(set1.value, set2.value))
      [] e.kind = "FilterWithin" ->
            LET candidates == EvaluationContext_evaluate(e.candidates)
                predicate == EvaluationContext_evaluate_predicate(e.predicate)
            IN IF ~candidates.ok THEN candidates
               ELSE IF ~predicate.ok THEN predicate
               ELSE Ok(FilterRevset(candidates.value, predicate.value))
      [] e.kind = "Intersection" ->
            LET set1 == EvaluationContext_evaluate(e.expression1)
                set2 == EvaluationContext_evaluate(e.expression2)
            IN IF ~set1.ok THEN set1
               ELSE IF ~set2.ok THEN set2
               ELSE Ok(IntersectionRevset(set1.value, set2.value))
      [] e.kind = "Difference" ->
            LET set1 == EvaluationContext_evaluate(e.expression1)
                set2 == EvaluationContext_evaluate(e.expression2)
            IN IF ~set1.ok THEN set1
               ELSE IF ~set2.ok THEN set2
               ELSE Ok(DifferenceRevset(set1.value, set2.value))

\* EvaluationContext::evaluate_predicate as a Result
EvaluationContext_evaluate_predicate(e) ==
    CASE e.kind = "Filter" ->
            Ok(Called("build_predicate_fn", <<e.predicate>>))
      [] e.kind = "Set" ->
            LET set == EvaluationContext_evaluate(e.expression)
            IN IF ~set.ok THEN set
               ELSE Ok(Called("into_predicate", <<set.value>>))
      [] e.kind = "NotIn" ->
            LET set == EvaluationContext_evaluate_predicate(e.complement)
            IN IF ~set.ok THEN set
               ELSE Ok(NotInPredicate(set.value))
      [] e.kind = "Union" ->
            LET set1 == EvaluationContext_evaluate_predicate(e.expression1)
                set2 == EvaluationContext_evaluate_predicate(e.expression2)
            IN IF ~set1.ok THEN set1
               ELSE IF ~set2.ok THEN set2
               ELSE Ok(UnionPredicate(set1.value, set2.value))

\* The public evaluate: the revset of the context wrapped in a RevsetImpl,
\* or its error.
RevsetImpl_evaluate(e) ==
    LET internal_revset == EvaluationContext_evaluate(e)
    IN IF ~internal_revset.ok THEN internal_revset
       ELSE Ok(Called("RevsetImpl::new", <<internal_revset.value>>))

\* Generation ranges: the full one, 1..2, one that starts at u32::MAX, one
\* that starts at 2^32 and one that starts at u64::MAX.
SomeGenerations ==
    {GENERATION_RANGE_FULL,
     GENERATION_RANGE_CHILDREN,
     Range_u64(<<0, 0, 65535, 65535>>, u64_MAX),
     Range_u64(<<0, 1, 0, 0>>, u64_MAX),
     Range_u64(u64_MAX, u64_MAX)}

\* The nodes of one operand.
UnaryNodes(A) ==
    {[kind |-> "Ancestors", heads |-> a, generation |-> g] :
        a \in A, g \in SomeGenerations}
        \cup {[kind |-> k, candidates |-> a] : k \in {"Heads", "Roots"}, a \in A}
        \cup {[kind |-> "Latest", candidates |-> a, count |-> 1] : a \in A}

\* The nodes of two operands.
BinaryNodes(A, B) ==
    {[kind |-> "Range", roots |-> a, heads |-> b, generation |-> g] :
        a \in A, b \in B, g \in SomeGenerations}
        \cup {[kind |-> "DagRange", roots |-> a, heads |-> b,
               generation_from_roots |-> g] :
                a \in A, b \in B, g \in SomeGenerations}
        \cup {[kind |-> k, expression1 |-> a, expression2 |-> b] :
                k \in {"Union", "Intersection", "Difference"}, a \in A, b \in B}

\* The predicate expressions over the expressions of A and B.
PredicateNodes(A, B) ==
    LET leaves == {[kind |-> "Filter", predicate |-> "author"]}
                      \cup {[kind |-> "Set", expression |-> a] : a \in A \cup B}
    IN leaves
           \cup {[kind |-> "NotIn", complement |-> p] : p \in leaves}
           \cup {[kind |-> "Union", expression1 |-> p, expression2 |-> q] :
                    p \in leaves, q \in leaves}

FilterWithinNodes(A, P) ==
    {[kind |-> "FilterWithin", candidates |-> a, predicate |-> p] :
        a \in A, p \in P}

\* A Commits node, and the nodes over it.
CommitsNode == [kind |-> "Commits", commit_ids |-> <<CommitId(0)>>]
NodesOverCommits ==
    {CommitsNode}
        \cup UnaryNodes({CommitsNode})
        \cup BinaryNodes({CommitsNode}, {CommitsNode})
        \cup FilterWithinNodes({CommitsNode},
                               PredicateNodes({CommitsNode}, {CommitsNode}))

InitResult ==
    /\ scen = "expression"
    /\ \E a \in NodesOverCommits, b \in NodesOverCommits :
           \/ expression \in UnaryNodes({a})
           \/ expression \in BinaryNodes({a}, {b})
           \/ expression \in FilterWithinNodes({a}, PredicateNodes({a}, {b}))
    /\ revset = Idle
    /\ NoIteration
    /\ NoClosure
    /\ index = Idle /\ store = Idle /\ ids = Idle /\ heads_order = Idle
    /\ reachable = Idle
    /\ NoRange
    /\ NoResult
    /\ NoChangeIds
    /\ NoCursors
    /\ NoBar
    /\ NoProgress
    /\ NoIdIndex

\* evaluate(expression, ..) returns.
EvaluateResult ==
    /\ scen = "expression"
    /\ scen' = "result"
    /\ result' = RevsetImpl_evaluate(expression)
    /\ UNCHANGED <<revset, iter, out, done, closure, before, asked, answers,
                   index, store, ids, heads_order, expression,
                   generation, converted, reachable, id_index, change_ids,
                   constructed, earlier,
                   bar, buf, this, clock, term>>

NextResult == EvaluateResult

SpecResult == InitResult /\ [][NextResult]_vars

(***************************************************************************)
(* The conversion of a generation range on its own.                        *)
(***************************************************************************)
\* The limbs the ranges are made of: the least, the greatest and one more.
SomeLimbs == {0, 1, 65535}
SomeU64 == {<<a, b, c, d>> : a \in SomeLimbs, b \in SomeLimbs,
                             c \in SomeLimbs, d \in SomeLimbs}

InitRange ==
    /\ scen = "range"
    /\ \E start \in SomeU64, end \in SomeU64 :
           generation = Range_u64(start, end)
    /\ converted = Idle
    /\ NoResult
    /\ NoChangeIds
    /\ NoCursors
    /\ NoBar
    /\ NoProgress
    /\ NoIdIndex
    /\ revset = Idle
    /\ NoIteration
    /\ NoClosure
    /\ NoIndex

Convert ==
    /\ scen = "range"
    /\ scen' = "converted"
    /\ converted' = to_u32_generation_range(generation)
    /\ UNCHANGED <<revset, iter, out, done, closure, before, asked, answers,
                   index, store, ids, heads_order, expression,
                   generation, reachable, result, id_index, change_ids,
                   constructed, earlier,
                   bar, buf, this, clock, term>>

NextRange == Convert

SpecRange == InitRange /\ [][NextRange]_vars

(***************************************************************************)
(* The id-prefix index.  A key is the sequence of its bytes, a byte is the *)
(* number 16 * high nibble + low nibble, and a hex string is the sequence  *)
(* of its digits, each a nibble.  A pair (K, V) is the tuple <<k, v>> and  *)
(* the tuple struct IdIndex(vec) is <<vec>>, so that self.0 is self[1].    *)
(***************************************************************************)
RECURSIVE from_hex(_)
\* ObjectId::from_hex: every two digits make a byte.
from_hex(hex) ==
    IF hex = <<>> THEN <<>>
    ELSE <<16 * hex[1] + hex[2]>> \o from_hex(SubSeq(hex, 3, Len(hex)))

RECURSIVE to_hex(_)
\* ObjectId::hex: the digits of the bytes.
to_hex(bytes) ==
    IF bytes = <<>> THEN <<>>
    ELSE <<bytes[1] \div 16, bytes[1] % 16>> \o to_hex(Tail(bytes))

RECURSIVE bytes_lt(_, _)
\* a < b for byte slices (and for keys, whose Ord is that of their bytes):
\* lexicographic, a proper prefix being less.
bytes_lt(a, b) ==
    IF b = <<>> THEN FALSE
    ELSE IF a = <<>> THEN TRUE
    ELSE IF a[1] # b[1] THEN a[1] < b[1]
    ELSE bytes_lt(Tail(a), Tail(b))

\* HexPrefix::new: the digits as bytes, an odd last digit filled up with 0
\* and flagged.
HexPrefix_new(hex) ==
    IF Len(hex) % 2 = 0
    THEN [min_prefix_bytes |-> from_hex(hex), has_odd_byte |-> FALSE]
    ELSE [min_prefix_bytes |-> from_hex(hex \o <<0>>), has_odd_byte |-> TRUE]

\* HexPrefix::min_prefix_bytes
HexPrefix_min_prefix_bytes(prefix) == prefix.min_prefix_bytes

\* HexPrefix::matches: the key starts with the whole bytes of the prefix,
\* and its next byte has the odd digit as high nibble, if there is one.
HexPrefix_matches(prefix, k) ==
    LET bytes == prefix.min_prefix_bytes
        whole == IF prefix.has_odd_byte THEN Len(bytes) - 1 ELSE Len(bytes)
    IN /\ Len(k) >= Len(bytes)
       /\ SubSeq(k, 1, whole) = SubSeq(bytes, 1, whole)
       /\ prefix.has_odd_byte =>
              (k[Len(bytes)] \div 16) * 16 = bytes[Len(bytes)]

RECURSIVE common_prefix_len(_, _)
\* The number of leading elements two sequences share.
common_prefix_len(a, b) ==
    IF a = <<>> \/ b = <<>> \/ a[1] # b[1] THEN 0
    ELSE 1 + common_prefix_len(Tail(a), Tail(b))

\* backend::common_hex_len: the number of leading hex digits shared.
common_hex_len(bytes_a, bytes_b) ==
    common_prefix_len(to_hex(bytes_a), to_hex(bytes_b))

IdIndex(vec) == <<vec>>

\* The sequence is ordered by key.
IsSortedByKey(vec) ==
    \A i \in 1..(Len(vec) - 1) : ~bytes_lt(vec[i + 1][1], vec[i][1])

\* vec.sort_unstable_by(|(k0, _), (k1, _)| k0.cmp(k1)): the orders the sort
\* may leave the pairs in, pairs of equal keys being in any order.
sort_unstable_by_key(vec) ==
    {sorted \in {[i \in 1..Len(vec) |-> vec[p[i]]] :
                    p \in {q \in [1..Len(vec) -> 1..Len(vec)] :
                              \A i \in 1..Len(vec) : \E j \in 1..Len(vec) : q[j] = i}} :
        IsSortedByKey(sorted)}

\* from_vec with the pairs left in the order they were given.
from_vec_unsorted(vec) == {IdIndex(vec)}

\* IdIndex::from_vec: the indexes it may return.
from_vec(vec) == {IdIndex(sorted) : sorted \in sort_unstable_by_key(vec)}

\* self.0.partition_point(|(k, _)| k < bound), for keys and for their bytes:
\* on a vector sorted by key, the number of pairs with a key below the bound.
partition_point(slice, bound) ==
    Cardinality({i \in 1..Len(slice) : bytes_lt(slice[i][1], bound)})

RECURSIVE take_while_matches(_, _)
\* .take_while(|(k, _)| prefix.matches(k))
take_while_matches(entries, prefix) ==
    IF entries = <<>> \/ ~HexPrefix_matches(prefix, entries[1][1]) THEN <<>>
    ELSE <<entries[1]>> \o take_while_matches(Tail(entries), prefix)

\* resolve_prefix_range starting from the first entry of the index.
resolve_prefix_range_from_start(self, prefix) ==
    take_while_matches(self[1], prefix)

\* IdIndex::resolve_prefix_range
resolve_prefix_range(self, prefix) ==
    LET min_bytes == HexPrefix_min_prefix_bytes(prefix)
        pos == partition_point(self[1], min_bytes)
    IN take_while_matches(SubSeq(self[1], pos + 1, Len(self[1])), prefix)

\* The value mapper ChangeIdIndexImpl::resolve_prefix gives: the position
\* becomes the commit id of the entry at that position.
value_mapper(pos) == CommitId(pos)

\* PrefixResolution
NoMatch == [resolution |-> "NoMatch"]
SingleMatch(entries) == [resolution |-> "SingleMatch", entries |-> entries]
AmbiguousMatch == [resolution |-> "AmbiguousMatch"]

\* resolve_prefix_with that reports keys that differ as no match.
resolve_prefix_with_unambiguous_only(self, prefix) ==
    LET range == resolve_prefix_range(self, prefix)
    IN IF range = <<>> \/ \E i \in 1..Len(range) : range[i][1] # range[1][1]
       THEN NoMatch
       ELSE SingleMatch([i \in 1..Len(range) |-> value_mapper(range[i][2])])

\* resolve_prefix_with that stops at the first key that differs and
\* reports the entries before it.
resolve_prefix_with_first_key(self, prefix) ==
    LET range == resolve_prefix_range(self, prefix)
    IN IF range = <<>> THEN NoMatch
       ELSE LET same == SelectSeq(range, LAMBDA e : e[1] = range[1][1])
            IN SingleMatch([i \in 1..Len(same) |-> value_mapper(same[i][2])])

\* IdIndex::resolve_prefix_with
resolve_prefix_with(self, prefix) ==
    LET range == resolve_prefix_range(self, prefix)
    IN IF range = <<>> THEN NoMatch
       ELSE LET first_key == range[1][1]
                maybe_entries ==
                    [i \in 1..Len(range) |->
                        IF range[i][1] = first_key
                        THEN Some(value_mapper(range[i][2])) ELSE None]
            IN IF \A i \in 1..Len(range) : maybe_entries[i] # None
               THEN SingleMatch([i \in 1..Len(range) |-> maybe_entries[i][1]])
               ELSE AmbiguousMatch

\* shortest_unique_prefix_len that looks at the neighbour on the right only.
shortest_unique_prefix_len_right(self, k) ==
    LET pos == partition_point(self[1], k)
        others == SelectSeq(SubSeq(self[1], pos + 1, Len(self[1])),
                            LAMBDA e : e[1] # k)
    IN IF others = <<>> THEN 0 ELSE common_hex_len(k, others[1][1]) + 1

\* shortest_unique_prefix_len that looks at the neighbour on the left only.
shortest_unique_prefix_len_left(self, k) ==
    LET pos == partition_point(self[1], k)
    IN IF pos = 0 THEN 0 ELSE common_hex_len(k, self[1][pos][1]) + 1

\* shortest_unique_prefix_len with the entry at the insertion point as the
\* neighbour on the right, be it the key itself.
shortest_unique_prefix_len_right_at_pos(self, k) ==
    LET pos == partition_point(self[1], k)
        left == IF pos = 0 THEN None ELSE Some(self[1][pos])
        right == IF pos = Len(self[1]) THEN None ELSE Some(self[1][pos + 1])
        lens == {common_hex_len(k, neighbor[1]) + 1 :
                    neighbor \in Range(left \o right)}
    IN IF lens = {} THEN 0
       ELSE CHOOSE n \in lens : \A m \in lens : m <= n

\* IdIndex::shortest_unique_prefix_len
shortest_unique_prefix_len(self, k) ==
    LET pos == partition_point(self[1], k)
        left == IF pos = 0 THEN None ELSE Some(self[1][pos])
        others == SelectSeq(SubSeq(self[1], pos + 1, Len(self[1])),
                            LAMBDA e : e[1] # k)
        right == IF others = <<>> THEN None ELSE Some(others[1])
        lens == {common_hex_len(k, neighbor[1]) + 1 :
                    neighbor \in Range(left \o right)}
    IN IF lens = {} THEN 0
       ELSE CHOOSE n \in lens : \A m \in lens : m <= n

\* The digits and the bytes the keys and the prefixes are made of.
SomeNibbles == {0, 10}
SomeBytes == {16 * hi + lo : hi \in SomeNibbles, lo \in SomeNibbles}

\* Keys of one byte, and keys of two bytes that start with 0a.
SomeKeys == {<<b>> : b \in SomeBytes} \cup {<<10, c>> : c \in SomeBytes}

\* Hex strings of up to four digits.
SomeHex == SeqsUpTo(SomeNibbles, 4)

\* The pairs an index is made from, at most.
MaxPairs == 3

\* The vectors given to from_vec: keys in any order, the value of a pair
\* being its place in the vector.
InitVec ==
    /\ \E n \in 0..MaxPairs : \E keys \in [1..n -> SomeKeys] :
           id_index = [i \in 1..n |-> <<keys[i], i - 1>>]
    /\ revset = Idle
    /\ NoIteration
    /\ NoClosure
    /\ NoIndex
    /\ NoRange
    /\ NoResult
    /\ NoChangeIds
    /\ NoCursors
    /\ NoBar
    /\ NoProgress

InitIdIndex == scen = "vec" /\ InitVec

\* IdIndex::from_vec(vec)
FromVec ==
    /\ scen = "vec"
    /\ scen' = "id_index"
    /\ id_index' \in from_vec(id_index)
    /\ UNCHANGED <<revset, iter, out, done, closure, before, asked, answers,
                   index, store, ids, heads_order, expression,
                   generation, converted, reachable, result, change_ids,
                   constructed, earlier,
                   bar, buf, this, clock, term>>

\* The call resolve_prefix_with(&HexPrefix::new(hex).unwrap(), value_mapper)
Resolve(hex) ==
    /\ asked' = Append(asked, hex)
    /\ answers' = Append(answers,
                         resolve_prefix_with(id_index, HexPrefix_new(hex)))
    /\ UNCHANGED <<revset, iter, out, done, closure, before,
                   index, store, ids, heads_order, expression,
                   generation, converted, reachable, result, id_index, change_ids,
                   constructed, earlier,
                   bar, buf, this, clock, term>>

\* A prefix is resolved.
ResolvePrefix ==
    /\ scen = "id_index"
    /\ scen' = "resolved"
    /\ \E hex \in SomeHex : Resolve(hex)

\* The prefix resolved last is resolved again with one more digit.
ResolveLonger ==
    /\ scen = "resolved"
    /\ UNCHANGED scen
    /\ \E hex \in SomeHex :
           /\ Len(hex) = Len(asked[Len(asked)]) + 1
           /\ SubSeq(hex, 1, Len(hex) - 1) = asked[Len(asked)]
           /\ Resolve(hex)

\* The keys of test_id_index_shortest_unique_prefix_len: ab, acd0, a0, ba,
\* and c0, which is in no index.
ExampleKeys ==
    {from_hex(<<10, 11>>), from_hex(<<10, 12, 13, 0>>), from_hex(<<10, 0>>),
     from_hex(<<11, 10>>), from_hex(<<12, 0>>)}

\* The call shortest_unique_prefix_len(&key), the key in the index or not.
ShortestUniquePrefixLen ==
    /\ scen = "id_index"
    /\ scen' = "measured"
    /\ \E k \in SomeKeys \cup ExampleKeys :
           /\ asked' = <<k>>
           /\ answers' = <<shortest_unique_prefix_len(id_index, k)>>
    /\ UNCHANGED <<revset, iter, out, done, closure, before,
                   index, store, ids, heads_order, expression,
                   generation, converted, reachable, result, id_index, change_ids,
                   constructed, earlier,
                   bar, buf, this, clock, term>>

NextIdIndex == FromVec \/ ResolvePrefix \/ ResolveLonger

SpecIdIndex == InitIdIndex /\ [][NextIdIndex]_vars

NextShortest == FromVec \/ ShortestUniquePrefixLen

SpecShortest == InitIdIndex /\ [][NextShortest]_vars

\* The index with the keys ab, acd0, acd0, a0 and ba.
ExampleVec ==
    <<from_hex(<<10, 11>>), from_hex(<<10, 12, 13, 0>>),
      from_hex(<<10, 12, 13, 0>>), from_hex(<<10, 0>>), from_hex(<<11, 10>>)>>

\* The example, its pairs given in any order.
InitExample ==
    /\ scen = "vec"
    /\ \E p \in [1..Len(ExampleVec) -> 1..Len(ExampleVec)] :
           /\ \A i \in 1..Len(ExampleVec) : \E j \in 1..Len(ExampleVec) : p[j] = i
           /\ id_index = [i \in 1..Len(ExampleVec) |-> <<ExampleVec[p[i]], i - 1>>]
    /\ revset = Idle
    /\ NoIteration
    /\ NoClosure
    /\ NoIndex
    /\ NoRange
    /\ NoResult
    /\ NoChangeIds
    /\ NoCursors
    /\ NoBar
    /\ NoProgress

SpecExample == InitExample /\ [][NextShortest]_vars

(***************************************************************************)
(* The change id index of a revset.                                        *)
(***************************************************************************)
\* IndexEntry::change_id
change_id(entry) == change_ids[entry]

\* The pairs change_id_index collects from the entries it is given.
pos_by_change(entries) ==
    [i \in 1..Len(entries) |-> <<change_id(entries[i]), entries[i]>>]

\* change_id_index over every entry of the index in place of those of the
\* revset.
RevsetImpl_change_id_index_of_index(inner) ==
    from_vec(pos_by_change(SortDesc(Positions)))

\* RevsetImpl::change_id_index: the indexes pos_by_change it may build.
RevsetImpl_change_id_index(inner) ==
    from_vec(pos_by_change(Iterator_collect(InternalRevset_iter(inner))))

\* Change ids of two bytes.
SomeChangeIds == {k \in SomeKeys : Len(k) = 2}

InitChangeIds ==
    /\ scen = "revset"
    /\ revset \in Leaves
    /\ change_ids \in [Positions -> SomeChangeIds]
    /\ NoCursors
    /\ NoBar
    /\ NoProgress
    /\ NoIteration
    /\ NoClosure
    /\ NoIndex
    /\ NoRange
    /\ NoResult
    /\ NoIdIndex

\* revset.change_id_index()
ChangeIdIndex ==
    /\ scen = "revset"
    /\ scen' = "id_index"
    /\ id_index' \in RevsetImpl_change_id_index(revset)
    /\ UNCHANGED <<revset, iter, out, done, closure, before, asked, answers,
                   index, store, ids, heads_order, expression,
                   generation, converted, reachable, result, change_ids,
                   constructed, earlier,
                   bar, buf, this, clock, term>>

NextChangeIds == ChangeIdIndex \/ ResolvePrefix

SpecChangeIds == InitChangeIds /\ [][NextChangeIds]_vars

(***************************************************************************)
(* Several cursors of one node: an iterator and a closure taken from the   *)
(* same node are advanced in any interleaving, and when the iterator has   *)
(* run to its end another one is taken.                                    *)
(***************************************************************************)
MaxIters == 2

\* The walk of the node was handed out instead of a clone of it.
InternalRevset_after_moved(node, cursor) ==
    IF node.kind = "Walk" THEN RevWalkRevset(<<>>) ELSE node

\* iter(&self) and to_predicate_fn(&self) borrow the node and hand out a
\* copy of its entries (index_entries.iter().cloned()) or a clone of its
\* walk (self.walk.clone()): the node after a cursor has moved.
InternalRevset_after(node, cursor) == node

InitCursors ==
    /\ scen = "cursors"
    /\ revset \in Leaves \cup Walks \cup FlatTrees
    /\ constructed = revset
    /\ earlier = <<>>
    /\ iter = InternalRevset_iter(revset)
    /\ out = <<>>
    /\ done = FALSE
    /\ closure = ToPredicateFn_to_predicate_fn(revset)
    /\ before = closure
    /\ asked = <<>>
    /\ answers = <<>>
    /\ NoIndex
    /\ NoRange
    /\ NoResult
    /\ NoChangeIds
    /\ NoIdIndex
    /\ NoBar
    /\ NoProgress

\* What next() returned goes to the consumer, the iterator is as next()
\* left it.
Advanced(r) ==
    /\ iter' = r.self
    /\ out' = IF r.item = None THEN out ELSE Append(out, r.item[1])
    /\ done' = (r.item = None)

\* What the call returned goes to the consumer, the closure is as the call
\* left it.
Answered(r) ==
    /\ closure' = r.self
    /\ answers' = Append(answers, r.item)

\* One call of next() on the iterator, while the closure is alive.
NextOfIter ==
    /\ scen = "cursors"
    /\ ~done
    /\ Advanced(Iterator_next(iter))
    /\ revset' = InternalRevset_after(revset, iter')
    /\ UNCHANGED <<scen, closure, before, asked, answers,
                   index, store, ids, heads_order, expression,
                   generation, converted, reachable, result, id_index,
                   change_ids, constructed, earlier,
                   bar, buf, this, clock, term>>

\* One call of the closure, in the order of the iterator, while the
\* iterator is alive.
CallOfClosure ==
    \E e \in Positions :
        /\ scen = "cursors"
        /\ asked # <<>> => e < asked[Len(asked)]
        /\ Answered(Predicate_call(closure, e))
        /\ revset' = InternalRevset_after(revset, closure')
        /\ asked' = Append(asked, e)
        /\ UNCHANGED <<scen, iter, out, done, before,
                       index, store, ids, heads_order, expression,
                       generation, converted, reachable, result, id_index,
                       change_ids, constructed, earlier,
                   bar, buf, this, clock, term>>

\* The iterator has run to its end; the node is asked for another one.
IterAgain ==
    /\ scen = "cursors"
    /\ done
    /\ Len(earlier) < MaxIters
    /\ earlier' = Append(earlier, out)
    /\ iter' = InternalRevset_iter(revset)
    /\ out' = <<>>
    /\ done' = FALSE
    /\ UNCHANGED <<scen, revset, closure, before, asked, answers,
                   index, store, ids, heads_order, expression,
                   generation, converted, reachable, result, id_index,
                   change_ids, constructed,
                   bar, buf, this, clock, term>>

\* The node is asked for another closure.
PredicateAgain ==
    /\ scen = "cursors"
    /\ asked # <<>>
    /\ closure' = ToPredicateFn_to_predicate_fn(revset)
    /\ asked' = <<>>
    /\ answers' = <<>>
    /\ UNCHANGED <<scen, revset, iter, out, done, before,
                   index, store, ids, heads_order, expression,
                   generation, converted, reachable, result, id_index,
                   change_ids, constructed, earlier,
                   bar, buf, this, clock, term>>

NextCursors == NextOfIter \/ CallOfClosure \/ IterAgain \/ PredicateAgain

SpecCursors == InitCursors /\ [][NextCursors]_vars

(***************************************************************************)
(* progress.rs: the progress bar.  An f32 is modelled by the dyadic        *)
(* rational n / unit it holds, in lowest terms; unit = 0 is NaN.  Every    *)
(* arithmetic result is rounded to the 24 significant bits of an f32, ties *)
(* to even.  A String is modelled by its runs: <<c, n>> is n times c.      *)
(***************************************************************************)
RECURSIVE Dyadic(_, _)
\* n / unit in lowest terms (unit is a power of two)
Dyadic(n, unit) ==
    IF unit > 1 /\ n % 2 = 0 THEN Dyadic(n \div 2, unit \div 2)
    ELSE [n |-> n, unit |-> unit]

NaN == [n |-> 0, unit |-> 0]

\* f32::MANTISSA_DIGITS
MANTISSA_DIGITS == 24

RECURSIVE ulp_of(_)
\* The spacing of the 24-bit significands at the magnitude of n >= 0.
ulp_of(n) == IF n < 2^MANTISSA_DIGITS THEN 1 ELSE 2 * ulp_of(n \div 2)

\* n >= 0 rounded to 24 significant bits, ties to even
round_ties_even(n) ==
    LET u == ulp_of(n)
        q == n \div u
        r == n % u
    IN IF 2 * r > u \/ (2 * r = u /\ q % 2 = 1) THEN (q + 1) * u ELSE q * u

\* The f32 nearest to n / unit.
f32(n, unit) ==
    IF n < 0 THEN Dyadic(0 - round_ties_even(0 - n), unit)
    ELSE Dyadic(round_ties_even(n), unit)

\* `width as f32`
usize_as_f32(n) == f32(n, 1)

\* a * b in f32; the factors are cancelled crosswise before they are
\* multiplied.
f32_mul(a, b) ==
    IF a.unit = 0 \/ b.unit = 0 THEN NaN
    ELSE LET x == Dyadic(a.n, b.unit)
             y == Dyadic(b.n, a.unit)
         IN f32(x.n * y.n, x.unit * y.unit)

\* a < b (false when either is NaN)
f32_lt(a, b) == a.unit # 0 /\ b.unit # 0 /\ a.n * b.unit < b.n * a.unit

\* f32::clamp: NaN stays NaN
f32_clamp(x, min, max) ==
    IF f32_lt(x, min) THEN min ELSE IF f32_lt(max, x) THEN max ELSE x

\* f32::round: to the nearest integer, halves away from zero
f32_round(x) ==
    IF x.unit = 0 THEN NaN
    ELSE IF x.n < 0 THEN Dyadic(0 - ((2 * (0 - x.n) + x.unit) \div (2 * x.unit)), 1)
    ELSE Dyadic((2 * x.n + x.unit) \div (2 * x.unit), 1)

\* `x as usize` of an integral x: the cast saturates, and NaN gives 0
f32_as_usize(x) == IF x.unit = 0 \/ x.n < 0 THEN 0 ELSE x.n

\* String::len, in characters
String_len(string) ==
    LET RECURSIVE upto(_)
        upto(i) == IF i = 0 THEN 0 ELSE upto(i - 1) + string[i][2]
    IN upto(Len(string))

\* `for _ in 0..n { buffer.push(ch) }`
String_push_times(string, ch, n) ==
    IF n <= 0 THEN string
    ELSE IF string # <<>> /\ string[Len(string)][1] = ch
    THEN [string EXCEPT ![Len(string)] = <<ch, string[Len(string)][2] + n>>]
    ELSE Append(string, <<ch, n>>)

\* The blocks of 0 to 8 eighths: ' ', U+258F down to U+2588.
CHARS == <<" ", "1/8", "2/8", "3/8", "4/8", "5/8", "6/8", "7/8", "8/8">>
RESOLUTION == Len(CHARS) - 1

\* let ticks = (width as f32 * progress.clamp(0.0, 1.0) * RESOLUTION as f32).round() as usize
ticks_of(progress, width) ==
    f32_as_usize(f32_round(f32_mul(f32_mul(usize_as_f32(width),
                                           f32_clamp(progress, f32(0, 1), f32(1, 1))),
                                   usize_as_f32(RESOLUTION))))

\* The partial block is pushed for every width.
draw_progress_always_partial(progress, buffer, width) ==
    LET ticks == ticks_of(progress, width)
        whole == ticks \div RESOLUTION
        full == String_push_times(buffer, CHARS[Len(CHARS)], whole)
        part == String_push_times(full, CHARS[(ticks % RESOLUTION) + 1], 1)
    IN String_push_times(part, CHARS[1], width - (whole + 1))

\* The spaces are pushed for whole..width.
draw_progress_spaces_from_whole(progress, buffer, width) ==
    LET ticks == ticks_of(progress, width)
        whole == ticks \div RESOLUTION
        full == String_push_times(buffer, CHARS[Len(CHARS)], whole)
        part == IF whole < width
                THEN String_push_times(full, CHARS[(ticks % RESOLUTION) + 1], 1)
                ELSE full
    IN String_push_times(part, CHARS[1], width - whole)

draw_progress(progress, buffer, width) ==
    LET ticks == ticks_of(progress, width)
        whole == ticks \div RESOLUTION
        full == String_push_times(buffer, CHARS[Len(CHARS)], whole)
        part == IF whole < width
                THEN String_push_times(full, CHARS[(ticks % RESOLUTION) + 1], 1)
                ELSE full
    IN String_push_times(part, CHARS[1], width - (whole + 1))

MaxWidth == 10
MaxBits == 5

\* 0.54f32, of test_bar
F054 == [n |-> 9059697, unit |-> 2^MANTISSA_DIGITS]

\* Progress values in steps of 2^-MaxBits, from below 0 to above 1.
SomeProgress == {Dyadic(k, 2^MaxBits) : k \in (0 - 2)..(2^MaxBits + 2)} \cup {NaN}

\* The widths around 2^24, where `width as f32` stops being exact.
BigWidths == {2^MANTISSA_DIGITS + d : d \in (0 - 1)..5}

\* The buffer is empty, as in test_bar, or ends with the '[' of update.
SomeBuffers == {<<>>, << <<"[", 1>> >>}

InitBar ==
    /\ scen = "bar"
    /\ \/ bar \in [progress : SomeProgress \cup {F054}, width : 0..MaxWidth,
                    buffer : SomeBuffers]
       \/ bar \in [progress : SomeProgress, width : BigWidths,
                    buffer : SomeBuffers]
    /\ buf = bar.buffer
    /\ revset = Idle
    /\ NoIteration
    /\ NoClosure
    /\ NoIndex
    /\ NoRange
    /\ NoResult
    /\ NoChangeIds
    /\ NoIdIndex
    /\ NoCursors
    /\ NoProgress

\* draw_progress(progress, &mut buf, width)
DrawProgress ==
    /\ scen = "bar"
    /\ scen' = "drawn"
    /\ buf' = draw_progress(bar.progress, buf, bar.width)
    /\ UNCHANGED <<revset, iter, out, done, closure, before, asked, answers,
                   index, store, ids, heads_order, expression,
                   generation, converted, reachable, result, id_index,
                   change_ids, constructed, earlier, bar, this, clock, term>>

NextBar == DrawProgress

SpecBar == InitBar /\ [][NextBar]_vars

(***************************************************************************)
(* progress.rs: Progress.  An Instant is the number of nanoseconds since   *)
(* the Progress was created, a Duration a number of nanoseconds.  The Ui   *)
(* keeps what was written to it, each write with the time of the call of   *)
(* update that made it; writes to the Ui succeed.                          *)
(***************************************************************************)
NANOS_PER_SEC == 1000000000
UPDATE_HZ == 30
\* Duration::from_millis(250)
INITIAL_DELAY == 250000000

\* Instant::min
Instant_min(a, b) == IF b < a THEN b ELSE a

\* RateEstimate::new
RateEstimate_new == [state |-> None]

\* RateEstimateState::update: total and last_sample are replaced; the
\* smoothed rate is a function of the rate before, delta and dt.
RateEstimateState_update(state, now, total) ==
    LET avg_rate == Called("avg_rate", <<state.avg_rate, total - state.total,
                                         now - state.last_sample>>)
    IN Ret(avg_rate,
           [total |-> total, avg_rate |-> Some(avg_rate), last_sample |-> now])

\* RateEstimate::update
RateEstimate_update(self, now, total) ==
    IF self.state # None
    THEN LET r == RateEstimateState_update(self.state[1], now, total)
         IN Ret(Some(r.item), [state |-> Some(r.self)])
    ELSE Ret(None, [state |-> Some([total |-> total, avg_rate |-> None,
                                    last_sample |-> now])])

\* Progress::new without the initial delay.
Progress_new_no_delay(now) ==
    [next_print |-> now, rate |-> RateEstimate_new, buffer |-> <<>>,
     guard |-> None]

\* Progress::new
Progress_new(now) ==
    [next_print |-> now + INITIAL_DELAY, rate |-> RateEstimate_new,
     buffer |-> <<>>, guard |-> None]

\* write!(ui, ..): what is written, and when.
Ui_write(ui, now, kind, text) ==
    [ui EXCEPT !.written = Append(@, [at |-> now, kind |-> kind, text |-> text])]

RECURSIVE decimal_digits(_)
\* The number of decimal digits of n >= 0.
decimal_digits(n) == IF n < 10 THEN 1 ELSE 1 + decimal_digits(n \div 10)

\* The length of a number written with `decimals` decimals, right-aligned
\* in min_width: {: >3.0} and {: >5.1}.
fmt_len(x, min_width, decimals) ==
    LET scaled == f32_as_usize(f32_round(f32_mul(x, f32(10^decimals, 1))))
        len == decimal_digits(scaled \div 10^decimals)
                   + (IF decimals = 0 THEN 0 ELSE decimals + 1)
    IN IF len < min_width THEN min_width ELSE len

TABLE == <<"", "Ki", "Mi", "Gi", "Ti", "Pi", "Ei", "Zi", "Yi">>

RECURSIVE binary_prefix_loop(_, _)
\* while scaled.abs() >= 1000.0 && i < TABLE.len() - 1 (scaled >= 0 here)
binary_prefix_loop(scaled, i) ==
    IF ~f32_lt(scaled, f32(1000, 1)) /\ i < Len(TABLE) - 1
    THEN binary_prefix_loop(f32_mul(scaled, Dyadic(1, 1024)), i + 1)
    ELSE <<scaled, TABLE[i + 1]>>

\* binary_prefix
binary_prefix(x) == binary_prefix_loop(x, 0)

\* The text of update's line before the bar, each field with its length:
\* "{: >3.0}% ", "{scaled: >5.1} {prefix}B " and "at {scaled: >5.1}
\* {prefix}B/s ".  The rate is not computed, and the length of its text is
\* rate_len.
Progress_fields(progress, rate, rate_len) ==
    << <<"percent", fmt_len(f32_mul(f32(100, 1), progress.overall), 3, 0) + 2>> >>
        \o (IF progress.bytes_downloaded = None THEN <<>>
            ELSE LET scaled == binary_prefix(usize_as_f32(progress.bytes_downloaded[1]))
                 IN << <<"bytes",
                         fmt_len(scaled[1], 5, 1) + 1 + Len(scaled[2]) + 2>> >>)
        \o (IF rate = None THEN <<>> ELSE << <<"rate", rate_len>> >>)

\* usize::saturating_sub
saturating_sub(a, b) == IF a < b THEN 0 ELSE a - b

\* The line update builds in self.buffer: the control characters, the
\* fields, and the bar in what is left of the width of the terminal.
Progress_line(progress, rate, term_width, rate_len) ==
    LET control == << <<"\\r", 1>>, <<"Clear(CurrentLine)", 1>> >>
        fields == control \o Progress_fields(progress, rate, rate_len)
        control_chars == String_len(control)
        bar_width == saturating_sub(IF term_width = None THEN 0 ELSE term_width[1],
                                    String_len(fields) - control_chars + 2)
    IN String_push_times(
           draw_progress(progress.overall,
                         String_push_times(fields, "[", 1), bar_width),
           "]", 1)

\* Progress::update
Progress_update(self, now, progress, ui, rate_len) ==
    IF progress.overall = f32(1, 1)
    THEN [self |-> self, ui |-> Ui_write(ui, now, "clear", <<>>)]
    ELSE LET fed == IF progress.bytes_downloaded = None
                    THEN Ret(None, self.rate)
                    ELSE RateEstimate_update(self.rate, now,
                                             progress.bytes_downloaded[1])
         IN IF now < self.next_print
            THEN [self |-> [self EXCEPT !.rate = fed.self], ui |-> ui]
            ELSE LET line == Progress_line(progress, fed.item, ui.width, rate_len)
                 IN [self |-> [next_print |->
                                   Instant_min(now,
                                               self.next_print
                                                   + NANOS_PER_SEC \div UPDATE_HZ),
                               rate |-> fed.self,
                               buffer |-> line,
                               guard |-> Some("CleanupGuard")],
                     ui |-> Ui_write(
                                IF self.guard = None
                                THEN Ui_write(ui, now, "hide", <<>>) ELSE ui,
                                now, "line", line)]

MaxUpdates == 3

\* The time between two calls: a millisecond, the period of UPDATE_HZ, the
\* initial delay.
SomeSteps == {1000000, NANOS_PER_SEC \div UPDATE_HZ, INITIAL_DELAY}

\* git::Progress: the bytes downloaded, if known, and the overall progress.
SomeGitProgress ==
    [bytes_downloaded : {None, Some(0), Some(2048)},
     overall : {Dyadic(1, 2), f32(1, 1)}]

\* The lengths of "at {scaled: >5.1} {prefix}B/s " without and with a
\* binary prefix.
RateTextLens == {13, 15}

\* ui.term_width()
SomeTermWidths == {None, Some(40)}

InitProgress ==
    /\ scen = "new"
    /\ this = Idle
    /\ clock = 0
    /\ term \in [width : SomeTermWidths, written : {<<>>}]
    /\ revset = Idle
    /\ NoIteration
    /\ NoClosure
    /\ NoIndex
    /\ NoRange
    /\ NoResult
    /\ NoChangeIds
    /\ NoIdIndex
    /\ NoCursors
    /\ NoBar

\* Progress::new(now)
ProgressNew ==
    /\ scen = "new"
    /\ scen' = "progress"
    /\ this' = Progress_new(clock)
    /\ UNCHANGED <<revset, iter, out, done, closure, before, asked, answers,
                   index, store, ids, heads_order, expression,
                   generation, converted, reachable, result, id_index,
                   change_ids, constructed, earlier, bar, buf, clock, term>>

\* The Progress and the Ui are as the call left them; the call is kept
\* with the Progress it was made on.
Updated(r, now, progress) ==
    /\ this' = r.self
    /\ term' = r.ui
    /\ clock' = now
    /\ asked' = Append(asked, [now |-> now, progress |-> progress, self |-> this])

\* progress.update(now, &progress, ui), some time after the call before;
\* the bytes downloaded do not decrease.
ProgressUpdate ==
    /\ scen = "progress"
    /\ Len(asked) < MaxUpdates
    /\ \E step \in SomeSteps, progress \in SomeGitProgress, rate_len \in RateTextLens :
          /\ \A i \in DOMAIN asked :
                (/\ asked[i].progress.bytes_downloaded # None
                 /\ progress.bytes_downloaded # None)
                    => asked[i].progress.bytes_downloaded[1]
                           <= progress.bytes_downloaded[1]
          /\ Updated(Progress_update(this, clock + step, progress, term, rate_len),
                     clock + step, progress)
    /\ UNCHANGED <<scen, revset, iter, out, done, closure, before, answers,
                   index, store, ids, heads_order, expression,
                   generation, converted, reachable, result, id_index,
                   change_ids, constructed, earlier, bar, buf>>

NextProgress == ProgressNew \/ ProgressUpdate

SpecProgress == InitProgress /\ [][NextProgress]_vars

(***************************************************************************)
(* The whole model: any of the behaviours above.                           *)
(***************************************************************************)
Init ==
    \/ InitIter \/ InitPred \/ InitFilter \/ InitCalls
    \/ InitEval \/ InitLatest \/ InitCommits \/ InitHeads \/ InitRange
    \/ InitResult \/ InitIdIndex \/ InitExample \/ InitChangeIds
    \/ InitCursors \/ InitBar \/ InitProgress

Next ==
    \/ Pull \/ Collect \/ CallInOrder \/ CallAny
    \/ Evaluate \/ EvaluateLatest \/ EvaluateCommits \/ EvaluateHeads
    \/ Convert \/ EvaluateResult
    \/ FromVec \/ ResolvePrefix \/ ResolveLonger \/ ShortestUniquePrefixLen
    \/ ChangeIdIndex
    \/ NextOfIter \/ CallOfClosure \/ IterAgain \/ PredicateAgain
    \/ DrawProgress \/ ProgressNew \/ ProgressUpdate

Spec == Init /\ [][Next]_vars

(***************************************************************************)
(* What an iterator or a closure has not consumed yet.                     *)
(***************************************************************************)
RECURSIVE Unread(_)
\* The items a slice iterator under Fuse and Peekable adapters still holds,
\* the one pulled ahead by peek included.
Unread(i) ==
    CASE i.kind = "Slice" -> i.rest
      [] i.kind = "Fuse" -> Unread(i.iter)
      [] i.kind = "Peekable" ->
            (IF i.peeked # None /\ i.peeked[1] # None
             THEN <<i.peeked[1][1]>> ELSE <<>>) \o Unread(i.iter)

RECURSIVE Cursor(_)
\* The cursors of a closure: what each captured iterator has not consumed.
Cursor(p) ==
    CASE p.kind = "FromIter" -> Unread(p.iter)
      [] p.kind \in {"And", "AndNot", "Or"} -> <<Cursor(p.p1), Cursor(p.p2)>>
      [] p.kind = "Not" -> <<Cursor(p.p)>>
      [] p.kind = "PureFn" -> <<>>

IsPrefix(s, t) == Len(s) <= Len(t) /\ s = SubSeq(t, 1, Len(s))

IsSetNode(r) == r.kind \in {"Union", "Intersection", "Difference", "Filter"}

Operand1(r) == IF r.kind = "Filter" THEN r.candidates ELSE r.set1
Operand2(r) == IF r.kind = "Filter" THEN r.predicate ELSE r.set2

OverLeaves(r) == Operand1(r).kind = "Eager" /\ Operand2(r).kind = "Eager"

\* The full sequence iter() of a node yields.
Yield(r) == Iterator_collect(InternalRevset_iter(r))

\* Input Y, behind Peekable pkY, was consumed only down to the least
\* element of the other input X: the entries of Y below all of X are unread.
ReadDownTo(pkY, Y, X) ==
    Range(Unread(pkY)) = {y \in Y : \A x \in X : y < x}

Exhausted(pk) == pk.peeked = Some(None)

(***************************************************************************)
(* Properties                                                              *)
(***************************************************************************)

\* C1: iter() of every node of a tree of Eager, Union, Intersection,
\* Difference and Filter nodes over strictly descending leaves yields
\* strictly decreasing positions (hence no duplicates).
C1_IterStrictlyDescending ==
    scen = "iter" => StrictlyDescending(out)

\* C1 witness: a nested tree has been iterated to its end and yielded
\* several entries.
C1_Witness ==
    /\ scen = "iter" /\ done /\ Len(out) >= 2
    /\ IsSetNode(revset)
    /\ IsSetNode(Operand1(revset)) \/ IsSetNode(Operand2(revset))

\* C4: UnionRevset.iter() yields exactly the positions of A or B, each
\* once and in descending order; both inputs are advanced past a position
\* they share; when one input is exhausted the rest of the other follows.
C4_UnionIter ==
    (scen = "iter" /\ revset.kind = "Union") =>
        LET A == Members(revset.set1)
            B == Members(revset.set2)
        IN /\ IsPrefix(out, SortDesc(A \cup B))
           /\ done => out = SortDesc(A \cup B)
           /\ (OverLeaves(revset) /\ out # <<>>) =>
                 /\ Range(Unread(iter.iter1)) = {x \in A : x < out[Len(out)]}
                 /\ Range(Unread(iter.iter2)) = {x \in B : x < out[Len(out)]}

\* C4 witness: a union of two leaves that share a position and each hold
\* one the other lacks has been iterated to its end.
C4_Witness ==
    /\ scen = "iter" /\ done /\ revset.kind = "Union" /\ OverLeaves(revset)
    /\ Members(revset.set1) \cap Members(revset.set2) # {}
    /\ Members(revset.set1) \ Members(revset.set2) # {}
    /\ Members(revset.set2) \ Members(revset.set1) # {}

\* C5: IntersectionRevset.iter() yields exactly the positions in both A and
\* B, and ends as soon as either input is exhausted (the other input is not
\* read further).
C5_IntersectionIter ==
    (scen = "iter" /\ revset.kind = "Intersection") =>
        LET A == Members(revset.set1)
            B == Members(revset.set2)
        IN /\ IsPrefix(out, SortDesc(A \cap B))
           /\ done => out = SortDesc(A \cap B)
           /\ (OverLeaves(revset) /\ done) =>
                 /\ Exhausted(iter.iter1) \/ Exhausted(iter.iter2)
                 /\ ReadDownTo(iter.iter1, A, B)
                 /\ ReadDownTo(iter.iter2, B, A)

\* C5 witness: an intersection of two leaves ended after yielding an entry
\* while one input still held entries.
C5_Witness ==
    /\ scen = "iter" /\ done /\ revset.kind = "Intersection"
    /\ OverLeaves(revset) /\ out # <<>>
    /\ Unread(iter.iter1) # <<>> \/ Unread(iter.iter2) # <<>>

\* C6: DifferenceRevset.iter() yields exactly the positions of A not in B;
\* when B is exhausted the rest of A is emitted, and when A is exhausted
\* the iterator ends whatever remains in B.
C6_DifferenceIter ==
    (scen = "iter" /\ revset.kind = "Difference") =>
        LET A == Members(revset.set1)
            B == Members(revset.set2)
        IN /\ IsPrefix(out, SortDesc(A \ B))
           /\ done => out = SortDesc(A \ B)
           /\ (OverLeaves(revset) /\ done) =>
                 /\ Exhausted(iter.iter1)
                 /\ ReadDownTo(iter.iter2, B, A)

\* C6 witness: a difference of two leaves ended with entries of B unread,
\* after excluding a shared position and yielding another.
C6_Witness ==
    /\ scen = "iter" /\ done /\ revset.kind = "Difference"
    /\ OverLeaves(revset) /\ out # <<>>
    /\ Members(revset.set1) \cap Members(revset.set2) # {}
    /\ Unread(iter.iter2) # <<>>

\* C7: FilterRevset{candidates C, predicate P}.iter() yields, in C's order,
\* exactly the entries of C for which P holds (P a set: C intersected with
\* it; NotIn(S): C minus S; UnionPredicate(S1, S2): C intersected with the
\* union); the node's predicate is the conjunction of C's and P.
C7_Filter ==
    revset.kind = "Filter" =>
        LET C == Yield(revset.candidates)
            P == Members(revset.predicate)
            Holds(x) == x \in P
        IN /\ scen = "iter" =>
                 /\ IsPrefix(out, SelectSeq(C, Holds))
                 /\ done => out = SelectSeq(C, Holds)
           /\ scen = "pred" =>
                 \A i \in DOMAIN asked :
                     answers[i] = (asked[i] \in Range(C) /\ asked[i] \in P)

\* C7 witness: a filter by NotIn(S) has been iterated to its end, keeping
\* some candidates and dropping others.
C7_Witness ==
    /\ scen = "iter" /\ done /\ revset.kind = "Filter"
    /\ revset.predicate.kind = "NotIn"
    /\ out # <<>> /\ Len(out) < Len(Yield(revset.candidates))

\* C2: the closure of predicate_fn_from_iter over a strictly descending
\* sequence S, called with strictly decreasing positions that may skip any
\* positions, returns true exactly for the positions in S.
C2_PredicateFromIter ==
    (scen = "pred" /\ revset.kind \in {"Eager", "Walk"}) =>
        \A i \in DOMAIN asked : answers[i] = (asked[i] \in Members(revset))

\* C2 witness: the first call skipped a member and a non-member of S and
\* returned true.
C2_Witness ==
    /\ scen = "pred" /\ revset.kind \in {"Eager", "Walk"} /\ asked # <<>>
    /\ answers[1]
    /\ \E x \in Members(revset) : x > asked[1]
    /\ \E x \in Positions \ Members(revset) : x > asked[1]

\* C3: for Union, Intersection, Difference and Filter nodes (any nesting)
\* called with strictly decreasing positions, every call of the closure
\* (the latest one, in each state) returns whether the entry is in the
\* node's own iter(), which is a or b for Union, a and b for Intersection
\* and Filter, a and not b for Difference, a and b being membership in the
\* operands, although the second closure is not always called.
C3_PredicateMatchesIter ==
    (scen = "pred" /\ IsSetNode(revset) /\ asked # <<>>) =>
        LET e == asked[Len(asked)]
            answer == answers[Len(answers)]
            a == e \in Members(Operand1(revset))
            b == e \in Members(Operand2(revset))
        IN /\ answer = (e \in Range(out))
           /\ answer = CASE revset.kind = "Union" -> a \/ b
                         [] revset.kind = "Difference" -> a /\ ~b
                         [] OTHER -> a /\ b

\* C3 witness: in a nested union the first call was settled by set1 without
\* calling set2's closure, and a later call was settled by set2.
C3_Witness ==
    /\ scen = "pred" /\ revset.kind = "Union" /\ Len(asked) >= 2
    /\ IsSetNode(revset.set1) \/ IsSetNode(revset.set2)
    /\ asked[1] \in Members(revset.set1) \cap Members(revset.set2)
    /\ asked[2] \in Members(revset.set2) \ Members(revset.set1)
    /\ answers[1] /\ answers[2]

\* The latest call was made with a position greater than that of an
\* earlier call to the same closure.
LastCallOutOfOrder ==
    /\ asked # <<>>
    /\ \E j \in 1..(Len(asked) - 1) : asked[Len(asked)] > asked[j]

\* C8 as stated: an out-of-order call to any predicate closure consumes no
\* element of an underlying stream.
C8_OutOfOrderNeverAdvances ==
    (scen = "pred" /\ LastCallOutOfOrder) => Cursor(closure) = Cursor(before)

\* C8 amended: an out-of-order call consumes no element when the closure is
\* that of an Eager or Walk node (predicate_fn_from_iter) or of an
\* Intersection, Difference or Filter node over such nodes.
C8_OutOfOrderLeafNeverAdvances ==
    (scen = "pred" /\ revset.kind # "Union" /\ LastCallOutOfOrder) =>
        Cursor(closure) = Cursor(before)

\* C8 witness: an out-of-order call was made to the closure of an Eager
\* node that still holds an entry it could have consumed.
C8_Witness ==
    /\ scen = "pred" /\ revset.kind = "Eager" /\ LastCallOutOfOrder
    /\ Cursor(closure) # <<>>

RECURSIVE IsAncestor(_, _)
\* Commit a is x or an ancestor of x in the commit graph.
IsAncestor(a, x) ==
    a = x \/ \E p \in index[x] : IsAncestor(a, p)

\* The expression of the behaviour has been evaluated and its revset
\* iterated to the end.
Evaluated(kind) ==
    /\ expression # Idle /\ expression.kind = kind
    /\ scen = "iter" /\ done

\* A DagRange expression with the given generation range has been evaluated
\* and its revset iterated to the end.
EvaluatedDagRange(range) ==
    /\ Evaluated("DagRange")
    /\ expression.generation_from_roots = range

\* C9: Roots(S) yields exactly the elements of S without a proper ancestor
\* in S, in strictly descending position: the elements of S none of whose
\* parent positions is in the reachable set of collect_dag_range(S, S).
C9_Roots ==
    Evaluated("Roots") =>
        LET S == Members(expression.candidates)
        IN /\ out = SortDesc({x \in S :
                                 ~\E a \in S : a # x /\ IsAncestor(a, x)})
           /\ reachable = collect_dag_range(expression.candidates,
                                            expression.candidates).reachable
           /\ Range(out) = {x \in S : index[x] \cap reachable = {}}

\* C9 witness: an element of S was dropped although none of its parents is
\* in S (its ancestor in S is further away), and another was kept.
C9_Witness ==
    /\ Evaluated("Roots") /\ out # <<>>
    /\ \E x \in Members(expression.candidates) \ Range(out) :
           index[x] \cap Members(expression.candidates) = {}

\* C10: DagRange{roots, heads} with the full generation range yields
\* exactly the commits that are a root or a descendant of one and a head or
\* an ancestor of one, in strictly descending position, and the reachable
\* set returned is the set of positions of the entries output.
C10_DagRange ==
    EvaluatedDagRange(GENERATION_RANGE_FULL) =>
        LET R == Members(expression.roots)
            H == Members(expression.heads)
        IN /\ out = SortDesc({c \in Positions :
                                 /\ \E r \in R : IsAncestor(r, c)
                                 /\ \E h \in H : IsAncestor(c, h)})
           /\ reachable = Range(out)

\* C10 witness: the range holds a descendant of a root that is not a root,
\* and leaves out an ancestor of a head that lies above a root position.
C10_Witness ==
    /\ EvaluatedDagRange(GENERATION_RANGE_FULL)
    /\ \E c \in Range(out) : c \notin Members(expression.roots)
    /\ \E c \in Positions \ Range(out) :
           /\ \E h \in Members(expression.heads) : IsAncestor(c, h)
           /\ \E r \in Members(expression.roots) : r < c

\* C11: DagRange{roots, heads} with the generation range 1..2 yields
\* exactly the heads and ancestors of heads that have a parent position
\* among the root positions, in strictly descending position, and nothing
\* when there is no root.
C11_Children ==
    EvaluatedDagRange(GENERATION_RANGE_CHILDREN) =>
        LET R == Members(expression.roots)
            H == Members(expression.heads)
        IN /\ revset.kind = "Filter" /\ revset.candidates.kind = "Walk"
           /\ out = SortDesc({c \in Positions :
                                 /\ \E h \in H : IsAncestor(c, h)
                                 /\ index[c] \cap R # {}})
           /\ R = {} => out = <<>>

\* C11 witness: a child of a root was yielded, and an ancestor of a head
\* that has a parent and lies above a root position was not.
C11_Witness ==
    /\ EvaluatedDagRange(GENERATION_RANGE_CHILDREN)
    /\ out # <<>>
    /\ \E c \in Positions \ Range(out) :
           /\ index[c] # {}
           /\ \E h \in Members(expression.heads) : IsAncestor(c, h)
           /\ \E r \in Members(expression.roots) : r < c

\* The candidates of the Latest expression, as items.
LatestItems ==
    {make_rev_item(c) : c \in Members(expression.candidates)}

\* C12: Latest{candidates, count} yields min(count, |candidates|) entries,
\* the candidates with the greatest (committer timestamp, position) pairs,
\* in strictly descending position, and nothing when count = 0.
C12_Latest ==
    Evaluated("Latest") =>
        LET n == Cardinality(LatestItems)
        IN /\ Len(out) = IF expression.count < n THEN expression.count ELSE n
           /\ StrictlyDescending(out)
           /\ Range(out) \subseteq Members(expression.candidates)
           /\ \A kept \in LatestItems : \A dropped \in LatestItems :
                  kept.entry \in Range(out) /\ dropped.entry \notin Range(out)
                      => \/ dropped.timestamp < kept.timestamp
                         \/ /\ dropped.timestamp = kept.timestamp
                            /\ dropped.entry < kept.entry
           /\ expression.count = 0 => out = <<>>

\* C12 witness: an entry was kept in place of one at a greater position
\* with an earlier timestamp, and an entry was dropped that has the
\* timestamp of a kept one.
C12_Witness ==
    /\ Evaluated("Latest")
    /\ \E kept \in Range(out) :
       \E dropped \in Members(expression.candidates) \ Range(out) :
           dropped > kept /\ store[dropped] < store[kept]
    /\ \E kept \in Range(out) :
       \E dropped \in Members(expression.candidates) \ Range(out) :
           store[dropped] = store[kept]

\* a <= b for two integers of the same width, by their limbs from the most
\* significant one.
RECURSIVE Limbs_le(_, _)
Limbs_le(a, b) ==
    \/ a = <<>>
    \/ Head(a) < Head(b)
    \/ Head(a) = Head(b) /\ Limbs_le(Tail(a), Tail(b))

\* A u32 as the u64 of the same value.
Widen(v) == <<0, 0>> \o v

\* C13: to_u32_generation_range(start..end) fails with an error carrying
\* start when start is above u32::MAX, and otherwise returns
\* start..min(end, u32::MAX).
C13_GenerationRange ==
    scen = "converted" =>
        IF Limbs_le(generation.start, Widen(u32_MAX))
        THEN /\ converted.ok
             /\ Widen(converted.value.start) = generation.start
             /\ Widen(converted.value.end) =
                    IF Limbs_le(generation.end, Widen(u32_MAX))
                    THEN generation.end ELSE Widen(u32_MAX)
        ELSE /\ ~converted.ok
             /\ converted.error.message[2] = generation.start

\* C13 witness: a range whose start is u32::MAX and whose end is 2^32 was
\* converted, the end saturating.
C13_Witness ==
    /\ scen = "converted"
    /\ generation.start = Widen(u32_MAX)
    /\ generation.end = <<0, 1, 0, 0>>
    /\ converted.ok
    /\ converted.value.end = u32_MAX

RECURSIVE GenerationsOf(_)
RECURSIVE GenerationsOfPredicate(_)
\* The generation ranges the conversion is applied to: those of the
\* Ancestors, Range and DagRange nodes anywhere in an expression, but for the
\* full range and, in a DagRange node, the range 1..2.
GenerationsOf(e) ==
    CASE e.kind = "Commits" -> {}
      [] e.kind = "Ancestors" ->
            GenerationsOf(e.heads)
                \cup ({e.generation} \ {GENERATION_RANGE_FULL})
      [] e.kind = "Range" ->
            GenerationsOf(e.roots) \cup GenerationsOf(e.heads)
                \cup ({e.generation} \ {GENERATION_RANGE_FULL})
      [] e.kind = "DagRange" ->
            GenerationsOf(e.roots) \cup GenerationsOf(e.heads)
                \cup ({e.generation_from_roots}
                          \ {GENERATION_RANGE_FULL, GENERATION_RANGE_CHILDREN})
      [] e.kind \in {"Heads", "Roots", "Latest"} -> GenerationsOf(e.candidates)
      [] e.kind \in {"Union", "Intersection", "Difference"} ->
            GenerationsOf(e.expression1) \cup GenerationsOf(e.expression2)
      [] e.kind = "FilterWithin" ->
            GenerationsOf(e.candidates) \cup GenerationsOfPredicate(e.predicate)

\* The same under a predicate expression.
GenerationsOfPredicate(e) ==
    CASE e.kind = "Filter" -> {}
      [] e.kind = "Set" -> GenerationsOf(e.expression)
      [] e.kind = "NotIn" -> GenerationsOfPredicate(e.complement)
      [] e.kind = "Union" ->
            GenerationsOfPredicate(e.expression1)
                \cup GenerationsOfPredicate(e.expression2)

\* start > u32::MAX
AboveU32(start) == ~Limbs_le(start, Widen(u32_MAX))

\* C14: evaluate returns an error, and no revset, exactly when some
\* Ancestors, Range or DagRange node of the expression tree, under a
\* FilterWithin predicate included, has a generation range that is neither
\* the full range nor (in a DagRange) 1..2 and starts above u32::MAX; the
\* error is that of such a node, and nothing is left to fail at iteration.
C14_OverflowAtConstruction ==
    scen = "result" =>
        LET overflowing == {g \in GenerationsOf(expression) : AboveU32(g.start)}
        IN IF overflowing = {}
           THEN result.ok /\ DOMAIN result = {"ok", "value"}
           ELSE /\ ~result.ok
                /\ DOMAIN result = {"ok", "error"}
                /\ \E g \in overflowing :
                       result.error = LowerBoundTooLarge(g.start)

\* C14 witness: the only range that starts above u32::MAX is that of a
\* Range node under the NotIn predicate of a FilterWithin node, beside a
\* DagRange node with the range 1..2, and evaluate returned the error.
C14_Witness ==
    /\ scen = "result"
    /\ ~result.ok
    /\ expression.kind = "FilterWithin"
    /\ expression.candidates.kind = "DagRange"
    /\ expression.candidates.generation_from_roots = GENERATION_RANGE_CHILDREN
    /\ expression.predicate.kind = "NotIn"
    /\ expression.predicate.complement.kind = "Set"
    /\ expression.predicate.complement.expression.kind = "Range"
    /\ GenerationsOf(expression)
           = {expression.predicate.complement.expression.generation}

\* The expression of the behaviour has been evaluated without a panic.
EvaluatedTo(kind) ==
    /\ expression # Idle /\ expression.kind = kind
    /\ scen = "iter"

\* C15: Commits(ids), for ids of the index in any order and with
\* repetitions, yields the entries of exactly those ids, each once, in
\* strictly descending position.
C15_Commits ==
    /\ EvaluatedTo("Commits") =>
          /\ revset.kind = "Eager"
          /\ StrictlyDescending(revset.index_entries)
          /\ Range(revset.index_entries) =
                 {p \in Positions : ids[p] \in Range(expression.commit_ids)}
    /\ Evaluated("Commits") => out = revset.index_entries
    /\ (/\ expression # Idle /\ expression.kind = "Commits"
        /\ Range(expression.commit_ids) \subseteq {ids[p] : p \in Positions})
           => scen # "panic"

\* C15 witness: an id was given twice with another id between the two,
\* the ids were not given in the order of their positions, and the entries
\* were yielded.
C15_Witness ==
    /\ Evaluated("Commits")
    /\ Len(expression.commit_ids) = 3
    /\ expression.commit_ids[1] = expression.commit_ids[3]
    /\ expression.commit_ids[1] # expression.commit_ids[2]
    /\ Len(out) = 2
    /\ ids[out[1]] = expression.commit_ids[2]

\* C16: Heads(S) yields exactly the elements of S that are not a proper
\* ancestor of another element of S, in strictly descending position,
\* whatever the order in which index.heads returns the ids.
C16_Heads ==
    Evaluated("Heads") =>
        LET S == Members(expression.candidates)
        IN /\ StrictlyDescending(out)
           /\ Range(out) =
                  {x \in S : ~\E y \in S : y # x /\ IsAncestor(x, y)}

\* C16 witness: index.heads returned two heads in ascending position and
\* an ancestor of one of them was a candidate.
C16_Witness ==
    /\ Evaluated("Heads")
    /\ Len(out) = 2
    /\ \E i \in 1..(MaxPos + 1) : \E j \in 1..(MaxPos + 1) :
           i < j /\ heads_order[i] = out[2] /\ heads_order[j] = out[1]
    /\ Members(expression.candidates) \ Range(out) # {}

\* The keys of an index, and its pairs that have a key among those given.
KeysOf(self) == {self[1][i][1] : i \in 1..Len(self[1])}
PairsOf(self, keys) == {i \in 1..Len(self[1]) : self[1][i][1] \in keys}

\* The key has the hex string as a prefix of its own digits.
HasHexPrefix(k, hex) == IsPrefix(hex, to_hex(k))

\* The answer is the resolution of the hex prefix the claim describes.
ResolvedAsClaimed(hex, answer) ==
    LET matching == {k \in KeysOf(id_index) : HasHexPrefix(k, hex)}
    IN /\ answer = NoMatch <=> matching = {}
       /\ answer = AmbiguousMatch <=> Cardinality(matching) >= 2
       /\ answer.resolution = "SingleMatch" <=> Cardinality(matching) = 1
       /\ answer.resolution = "SingleMatch" =>
              /\ Len(answer.entries) = Cardinality(PairsOf(id_index, matching))
              /\ Range(answer.entries)
                     = {value_mapper(id_index[1][i][2]) :
                           i \in PairsOf(id_index, matching)}

\* C17: on an index built by from_vec from pairs in any order,
\* resolve_prefix_with of a hex prefix of even or odd length returns NoMatch
\* exactly when no key has the prefix, AmbiguousMatch exactly when two or
\* more distinct keys have it, and SingleMatch exactly when one key has it,
\* with the mapped values of every pair of that key and nothing else.
C17_ResolvePrefix ==
    scen = "resolved" =>
        /\ Cardinality(PairsOf(id_index, KeysOf(id_index))) = Len(id_index[1])
        /\ {id_index[1][i][2] : i \in 1..Len(id_index[1])}
               = 0..(Len(id_index[1]) - 1)
        /\ \A i \in 1..Len(asked) : ResolvedAsClaimed(asked[i], answers[i])

\* C17 witness: a prefix of odd length resolved to the two values of a key
\* stored twice, in an index that holds a lesser key without the prefix.
C17_Witness ==
    /\ scen = "resolved"
    /\ Len(asked) = 1
    /\ Len(asked[1]) % 2 = 1
    /\ answers[1].resolution = "SingleMatch"
    /\ Len(answers[1].entries) = 2
    /\ Len(id_index[1]) = 3
    /\ ~HasHexPrefix(id_index[1][1][1], asked[1])

\* C18: if a prefix resolves to NoMatch, so does every prefix that extends
\* it: of the prefixes resolved on an index, each one longer than the one
\* before.
C18_Monotone ==
    scen = "resolved" =>
        \A i \in 1..Len(asked) : \A j \in 1..Len(asked) :
            IsPrefix(asked[i], asked[j]) /\ answers[i] = NoMatch
                => answers[j] = NoMatch

\* C18 witness: on an index of three pairs a prefix matched, a longer one
\* of odd length did not, and neither did the one after it.
C18_Witness ==
    /\ scen = "resolved"
    /\ Len(id_index[1]) = 3
    /\ Len(asked) = 3
    /\ answers[1] # NoMatch
    /\ Len(asked[2]) % 2 = 1
    /\ answers[2] = NoMatch
    /\ answers[3] = NoMatch

\* Two keys share their first n hex digits.
SharesFirst(a, b, n) ==
    /\ n <= Len(to_hex(a))
    /\ n <= Len(to_hex(b))
    /\ SubSeq(to_hex(a), 1, n) = SubSeq(to_hex(b), 1, n)

\* n is the smallest length at which no other key of the index shares its
\* first digits with k.
IsShortestUnique(k, n) ==
    LET others == KeysOf(id_index) \ {k}
    IN /\ \A o \in others : ~SharesFirst(k, o, n)
       /\ \A m \in 0..(n - 1) : \E o \in others : SharesFirst(k, o, m)

\* C19: for a key k of the index, shortest_unique_prefix_len(k) is the
\* smallest n such that no other key of the index shares its first n hex
\* digits with k, pairs with the key k itself not being other keys; on an
\* empty index it is 0.
C19_ShortestUnique ==
    scen = "measured" =>
        /\ asked[1] \in KeysOf(id_index) => IsShortestUnique(asked[1], answers[1])
        /\ id_index[1] = <<>> => answers[1] = 0

\* C19 witness: the key is stored twice between two other keys, it is a
\* proper prefix of the greater one, and the length returned is one more
\* than the number of its digits.
C19_Witness ==
    /\ scen = "measured"
    /\ Len(id_index[1]) = 3
    /\ id_index[1][1][1] = asked[1]
    /\ id_index[1][2][1] = asked[1]
    /\ id_index[1][3][1] # asked[1]
    /\ answers[1] = Len(to_hex(asked[1])) + 1

\* The length returned for the key with the given hex digits, if that key
\* was asked for, is n.
ExampleLen(hex, n) ==
    scen = "measured" /\ asked[1] = from_hex(hex) => answers[1] = n

\* C20 as stated: on the index with keys ab, acd0, acd0, a0, ba the length
\* is 2 for a0, 1 for ba, 2 for ab, 3 for acd0 and 1 for the absent c0.
C20_ExampleAsStated ==
    /\ ExampleLen(<<10, 0>>, 2)
    /\ ExampleLen(<<11, 10>>, 1)
    /\ ExampleLen(<<10, 11>>, 2)
    /\ ExampleLen(<<10, 12, 13, 0>>, 3)
    /\ ExampleLen(<<12, 0>>, 1)

\* C20 amended: on that index the length is 2 for a0, 1 for ba, 2 for ab,
\* 2 for acd0 (its neighbours ab and ba share one digit and none with it)
\* and 1 for the absent c0.
C20_Example ==
    /\ ExampleLen(<<10, 0>>, 2)
    /\ ExampleLen(<<11, 10>>, 1)
    /\ ExampleLen(<<10, 11>>, 2)
    /\ ExampleLen(<<10, 12, 13, 0>>, 2)
    /\ ExampleLen(<<12, 0>>, 1)

\* C20 witness: the length of acd0 was asked for on the example index, and
\* it is 2.
C20_Witness ==
    /\ scen = "measured"
    /\ {id_index[1][i][1] : i \in 1..Len(id_index[1])} \subseteq ExampleKeys
    /\ Len(id_index[1]) = Len(ExampleVec)
    /\ asked[1] = from_hex(<<10, 12, 13, 0>>)
    /\ answers[1] = 2

\* C21: for a key that is not in the index, shortest_unique_prefix_len
\* returns the length the key would need if it were inserted (the smallest
\* n such that no key of the index shares its first n hex digits with it),
\* and the number of its hex digits plus 1 when it is a strict prefix of a
\* key of the index.
C21_AbsentKey ==
    scen = "measured" /\ asked[1] \notin KeysOf(id_index) =>
        /\ IsShortestUnique(asked[1], answers[1])
        /\ (\E o \in KeysOf(id_index) : IsPrefix(asked[1], o))
               => answers[1] = Len(to_hex(asked[1])) + 1

\* C21 witness: the key is not in the index, it is a strict prefix of a
\* key of the index that has a lesser key before it, and the length
\* returned is the number of its digits plus 1.
C21_Witness ==
    /\ scen = "measured"
    /\ asked[1] \notin KeysOf(id_index)
    /\ Len(id_index[1]) >= 2
    /\ bytes_lt(id_index[1][1][1], asked[1])
    /\ \E o \in KeysOf(id_index) : IsPrefix(asked[1], o)
    /\ answers[1] = Len(to_hex(asked[1])) + 1

\* C22: the index change_id_index() builds holds exactly the entries of
\* the revset: a prefix resolves to NoMatch when no entry of the revset has a
\* change id with the prefix, to AmbiguousMatch when entries of the revset
\* have two or more such change ids, and else to SingleMatch with the commit
\* ids of all entries of the revset that carry the one change id; commits
\* outside the revset count for nothing.
C22_ChangeIdIndex ==
    scen = "resolved" /\ change_ids # Idle =>
        LET matching == {change_ids[p] : p \in {q \in Members(revset) :
                                HasHexPrefix(change_ids[q], asked[1])}}
        IN /\ answers[1] = NoMatch <=> matching = {}
           /\ answers[1] = AmbiguousMatch <=> Cardinality(matching) >= 2
           /\ Cardinality(matching) = 1 =>
                  /\ answers[1].resolution = "SingleMatch"
                  /\ Len(answers[1].entries)
                         = Cardinality({p \in Members(revset) :
                                           change_ids[p] \in matching})
                  /\ Range(answers[1].entries)
                         = {value_mapper(p) : p \in {q \in Members(revset) :
                                                 change_ids[q] \in matching}}

\* C22 witness: two commits of the revset share a change id, a commit
\* outside the revset has another change id with the same prefix, and the
\* prefix resolved to the two commits.
C22_Witness ==
    /\ scen = "resolved"
    /\ change_ids # Idle
    /\ answers[1].resolution = "SingleMatch"
    /\ Len(answers[1].entries) = 2
    /\ \E p \in Positions \ Members(revset) :
           /\ HasHexPrefix(change_ids[p], asked[1])
           /\ \A q \in Members(revset) : change_ids[q] # change_ids[p]

CharAt(string, i) ==
    LET RECURSIVE in_run(_, _)
        in_run(r, left) ==
            IF left <= string[r][2] THEN string[r][1]
            ELSE in_run(r + 1, left - string[r][2])
    IN in_run(1, i)

\* The places of the bar that are looked at: the first ones, those around
\* the end of the full blocks, and the last one.
PlacesOfBar ==
    LET whole == ticks_of(bar.progress, bar.width) \div RESOLUTION
    IN {i \in (1..(MaxWidth + 1)) \cup ((whole - 1)..(whole + 2)) \cup {bar.width} :
            1 <= i /\ i <= bar.width}

\* What was appended is width characters: floor(ticks / 8) full blocks, then
\* one block of ticks mod 8 eighths if the full blocks are fewer than
\* width, then spaces.
BarAsClaimed ==
    LET ticks == ticks_of(bar.progress, bar.width)
        whole == ticks \div RESOLUTION
        start == String_len(bar.buffer)
    IN /\ String_len(buf) = start + bar.width
       /\ \A i \in 1..start : CharAt(buf, i) = CharAt(bar.buffer, i)
       /\ \A i \in PlacesOfBar :
             CharAt(buf, start + i) =
                 IF i <= whole THEN CHARS[Len(CHARS)]
                 ELSE IF i = whole + 1 THEN CHARS[(ticks % RESOLUTION) + 1]
                 ELSE CHARS[1]

IsSuffix(s, t) == Len(s) <= Len(t) /\ s = SubSeq(t, Len(t) - Len(s) + 1, Len(t))

\* C25: the closure of an Eager or Walk node (predicate_fn_from_iter),
\* called with any positions in any order, answers true only for a member
\* of the set, answers true at most once for a position, and each call
\* leaves the cursor where it was or further on.
C25_AnyOrder ==
    scen = "pred" /\ revset.kind \in {"Eager", "Walk"} =>
        /\ \A i \in DOMAIN asked : answers[i] => asked[i] \in Members(revset)
        /\ \A i, j \in DOMAIN asked :
              i < j /\ asked[i] = asked[j] /\ answers[i] => ~answers[j]
        /\ IsSuffix(Cursor(closure), Cursor(before))
        /\ IsSuffix(Cursor(closure), Yield(revset))

\* A member was asked for twice, with a call for a smaller position in
\* between: true, then the later answers, the second one for the member
\* false.
C25_Witness ==
    /\ scen = "pred"
    /\ revset.kind \in {"Eager", "Walk"}
    /\ Len(asked) = 3
    /\ asked[1] = asked[3]
    /\ asked[2] < asked[1]
    /\ answers = <<TRUE, TRUE, FALSE>>
    /\ Cursor(closure) # <<>>

\* The entries of a sequence that have a parent among the roots of the
\* expression.
WithParentAmongRoots(entries) ==
    SelectSeq(entries,
              LAMBDA e : index[e] \cap Members(expression.roots) # {})

\* C26: for the same roots and heads, what the fast path of DagRange for
\* the generation range 1..2 (walk_children) yields is what the full range
\* (collect_dag_range) yields, narrowed to the entries that have a parent
\* among the roots; every entry of the fast path is in the full range.
C26_ChildrenOfFullRange ==
    /\ EvaluatedDagRange(GENERATION_RANGE_CHILDREN) =>
          LET full == Yield(collect_dag_range(expression.roots,
                                              expression.heads).set)
          IN /\ out = WithParentAmongRoots(full)
             /\ Range(out) \subseteq Range(full)
    /\ EvaluatedDagRange(GENERATION_RANGE_FULL) =>
          Yield(walk_children(expression.roots, expression.heads))
              = WithParentAmongRoots(out)

\* The fast path yielded a child of a root, and the full range for the same
\* roots and heads holds more: a root, and a descendant further away.
C26_Witness ==
    /\ EvaluatedDagRange(GENERATION_RANGE_CHILDREN)
    /\ out # <<>>
    /\ LET full == Members(collect_dag_range(expression.roots,
                                             expression.heads).set)
       IN /\ \E r \in full : r \in Members(expression.roots)
          /\ \E c \in full \ Range(out) : c \notin Members(expression.roots)

\* The first n hex digits of a key, as a prefix.
PrefixOfKey(k, n) == HexPrefix_new(SubSeq(to_hex(k), 1, n))

\* C27: for a key k of the index with n = shortest_unique_prefix_len(k) and
\* 1 <= n <= the number of hex digits of k, the first n digits of k
\* resolve to SingleMatch with the values of k and no other, and when
\* n >= 2 the first n - 1 digits resolve to AmbiguousMatch.
C27_LenAndResolveAgree ==
    (/\ scen = "measured"
     /\ asked[1] \in KeysOf(id_index)
     /\ 1 <= answers[1]
     /\ answers[1] <= Len(to_hex(asked[1]))) =>
        LET k == asked[1]
            n == answers[1]
            at_n == resolve_prefix_with(id_index, PrefixOfKey(k, n))
        IN /\ at_n.resolution = "SingleMatch"
           /\ Len(at_n.entries) = Cardinality(PairsOf(id_index, {k}))
           /\ Range(at_n.entries)
                  = {value_mapper(id_index[1][i][2]) : i \in PairsOf(id_index, {k})}
           /\ n >= 2 =>
                 resolve_prefix_with(id_index, PrefixOfKey(k, n - 1))
                     = AmbiguousMatch

\* A key stored twice, next to a key that shares its first three digits:
\* four digits single it out, with both of its values.
C27_Witness ==
    /\ scen = "measured"
    /\ asked[1] \in KeysOf(id_index)
    /\ Cardinality(PairsOf(id_index, {asked[1]})) = 2
    /\ answers[1] = 4
    /\ Len(to_hex(asked[1])) = 4
    /\ Len(resolve_prefix_with(id_index, PrefixOfKey(asked[1], 4)).entries) = 2

\* The items of the candidates of the Latest expression, in the order of
\* candidate_set.iter().
CandidateItems ==
    map_make_rev_item(Iterator_collect(InternalRevset_iter(expression.candidates)))

\* The heap when j of the candidates after the first count ones have been
\* compared with its minimum.
HeapAfter(j) ==
    take_latest_loop(
        SubSeq(Iterator_after_take(CandidateItems, expression.count), 1, j),
        Range(Iterator_take(CandidateItems, expression.count)))

\* C28: take_latest_revset with count > 0 does not panic: whenever a
\* candidate after the first count ones is compared with the minimum of the
\* heap the heap is not empty, the heap never holds more than count items,
\* and the final assertion holds.
C28_HeapNeverFails ==
    (/\ expression # Idle
     /\ expression.kind = "Latest"
     /\ expression.count > 0
     /\ scen # "eval") =>
        /\ scen = "iter"
        /\ \A j \in 0..Len(Iterator_after_take(CandidateItems, expression.count)) :
              /\ ~HeapAfter(j).panic
              /\ Cardinality(HeapAfter(j).latest_items) <= expression.count
              /\ j < Len(Iterator_after_take(CandidateItems, expression.count))
                     => BinaryHeap_peek_mut(HeapAfter(j).latest_items) # None

\* More candidates than count: the heap was full after the first count
\* items, two more were compared with its minimum and one of them replaced
\* it.
C28_Witness ==
    /\ expression # Idle
    /\ expression.kind = "Latest"
    /\ scen = "iter"
    /\ expression.count = 1
    /\ Len(CandidateItems) = 3
    /\ Cardinality(HeapAfter(2).latest_items) = 1
    /\ HeapAfter(2).latest_items # HeapAfter(0).latest_items

\* The writes of progress lines, by their place in what the Ui was given.
LinesWritten == {i \in DOMAIN term.written : term.written[i].kind = "line"}

\* C29 as stated: after an update has written a progress line at time t, no
\* later update at a time t' with t <= t' < t + 1/30 s and overall # 1.0
\* writes a progress line.
C29_Throttled ==
    scen = "progress" =>
        \A i, j \in LinesWritten :
            i < j => ~(/\ term.written[i].at <= term.written[j].at
                       /\ term.written[j].at
                              < term.written[i].at + NANOS_PER_SEC \div UPDATE_HZ)

\* The Progress as the i-th call of update left it.
ProgressAfter(i) == IF i = Len(asked) THEN this ELSE asked[i + 1].self

\* What the i-th call of update wrote to the Ui.
WrittenBy(i) == SelectSeq(term.written, LAMBDA w : w.at = asked[i].now)

\* C30: before t0 + INITIAL_DELAY no update writes a progress line or hides
\* the cursor, and each of these updates that carries bytes_downloaded and
\* whose overall is not 1.0 feeds the rate estimate; an update with
\* overall = 1.0 writes the clearing of the line and nothing else, and
\* leaves the Progress (next_print, rate, buffer, guard) as it was.
C30_InitialDelay ==
    scen = "progress" =>
        \A i \in DOMAIN asked :
              LET call == asked[i]
                  after == ProgressAfter(i)
              IN /\ (call.now < INITIAL_DELAY /\ call.progress.overall # f32(1, 1)) =>
                       /\ WrittenBy(i) = <<>>
                       /\ after.guard = None
                       /\ after.buffer = <<>>
                       /\ after.next_print = INITIAL_DELAY
                       /\ call.progress.bytes_downloaded # None =>
                             /\ after.rate.state # None
                             /\ after.rate.state[1].total
                                    = call.progress.bytes_downloaded[1]
                             /\ after.rate.state[1].last_sample = call.now
                 /\ call.progress.overall = f32(1, 1) =>
                       /\ after = call.self
                       /\ Len(WrittenBy(i)) = 1
                       /\ WrittenBy(i)[1].kind = "clear"

\* An update within the delay fed the rate estimate and wrote nothing, the
\* next one, after the delay, hid the cursor and wrote a line with the
\* rate, and a last one with overall = 1.0 cleared the line.
C30_Witness ==
    /\ scen = "progress"
    /\ Len(asked) = 3
    /\ asked[1].now < INITIAL_DELAY
    /\ asked[1].progress.bytes_downloaded = Some(0)
    /\ asked[2].self.rate.state # None
    /\ asked[2].progress.bytes_downloaded = Some(2048)
    /\ asked[3].progress.overall = f32(1, 1)
    /\ Len(term.written) = 3
    /\ term.written[1].kind = "hide"
    /\ term.written[2].kind = "line"
    /\ \E r \in DOMAIN term.written[2].text : term.written[2].text[r][1] = "rate"
    /\ term.written[3].kind = "clear"
    /\ this.guard # None

====
